---- MODULE Spec2Model ----
(***************************************************************************)
(* A model of plotsoftware.py (the image grid viewer): the ImageGrid       *)
(* object, the main loop's event handlers, the export worker threads and   *)
(* the text fitter.                                                        *)
(*                                                                         *)
(* Strings (file names, paths, header texts) are sequences of character    *)
(* codes.  Python floats (zoom_level, scroll_offset, current_progress) are *)
(* exact rationals [n, d] in lowest terms with d > 0.  None is NoneIdx for *)
(* an index and the empty sequence for a path (both are falsy in Python).  *)
(***************************************************************************)
EXTENDS Integers, Sequences, FiniteSets, Bags, TLC

\* ------------------------------------------------------------------------
\* Bounds of the model
\* ------------------------------------------------------------------------
MaxTextLen == 4
MaxQueue == 1
MaxDetached == 1
MaxDen == 3
MaxWaiting == 2

\* ------------------------------------------------------------------------
\* Program constants (src/plotsoftware.py:30-62)
\* ------------------------------------------------------------------------
MAX_HEADER_HEIGHT == 200
MAX_FILENAME_WIDTH == 200
MIN_HEADER_HEIGHT == 1
MIN_FILENAME_WIDTH == 1
MIN_TEXT_CELL_WIDTH == 1
MIN_TEXT_CELL_HEIGHT == 1
SCROLL_SPEED == 30
BUFFER_ROWS == 2
BUFFER_COLS == 2
INFO_HEIGHT == 30
MIN_COLUMN_0_WIDTH == 128
MAX_COLUMN_0_WIDTH == 256
MIN_ROW_0_HEIGHT == 256
MAX_ROW_0_HEIGHT == 128
CELL_PADDING == 5

\* ------------------------------------------------------------------------
\* Exact arithmetic standing for Python's float arithmetic
\* ------------------------------------------------------------------------
Abs(x) == IF x < 0 THEN -x ELSE x

Max2(a, b) == IF a >= b THEN a ELSE b

Min2(a, b) == IF a <= b THEN a ELSE b

RECURSIVE GCD(_, _)
GCD(a, b) == IF b = 0 THEN a ELSE GCD(b, a % b)

Rat(n, d) ==
    LET g == GCD(Abs(n), d)
    IN  IF n = 0 THEN [n |-> 0, d |-> 1] ELSE [n |-> n \div g, d |-> d \div g]

RInt(k) == [n |-> k, d |-> 1]

RAdd(a, b) == Rat(a.n * b.d + b.n * a.d, a.d * b.d)

RSub(a, b) == Rat(a.n * b.d - b.n * a.d, a.d * b.d)

RMul(a, b) == Rat(a.n * b.n, a.d * b.d)

\* a / k for an integer k > 0
RDivInt(a, k) == Rat(a.n, a.d * k)

RLE(a, b) == a.n * b.d <= b.n * a.d

RLT(a, b) == a.n * b.d < b.n * a.d

RMax(a, b) == IF RLE(b, a) THEN a ELSE b

RMin(a, b) == IF RLE(a, b) THEN a ELSE b

\* Python's int(x): truncation toward zero
RTrunc(a) == IF a.n >= 0 THEN a.n \div a.d ELSE -((-a.n) \div a.d)

ZOOM_SPEED == Rat(5, 100)
MIN_START_ZOOM == Rat(50, 100)
MIN_ZOOM == Rat(5, 100)
MAX_ZOOM == Rat(300, 100)

\* ------------------------------------------------------------------------
\* Strings as sequences of character codes
\* ------------------------------------------------------------------------
SPACE == 32
DOT == 46

ELLIPSIS == <<DOT, DOT, DOT>>

\* "PLACEHOLDER:"
PLACEHOLDER == <<80, 76, 65, 67, 69, 72, 79, 76, 68, 69, 82, 58>>

StartsWith(s, p) == Len(s) >= Len(p) /\ SubSeq(s, 1, Len(p)) = p

EndsWith(s, p) == Len(s) >= Len(p) /\ SubSeq(s, Len(s) - Len(p) + 1, Len(s)) = p

\* s[:k] and s[k:] of Python, for 0 <= k
Prefix(s, k) == SubSeq(s, 1, Min2(k, Len(s)))

Suffix(s, k) == SubSeq(s, Min2(k, Len(s)) + 1, Len(s))

RECURSIVE LStrip(_)
LStrip(s) == IF s # <<>> /\ Head(s) = SPACE THEN LStrip(Tail(s)) ELSE s

RECURSIVE RStrip(_)
RStrip(s) ==
    IF s # <<>> /\ s[Len(s)] = SPACE THEN RStrip(SubSeq(s, 1, Len(s) - 1)) ELSE s

Strip(s) == LStrip(RStrip(s))

\* str.rfind(' ') : the 0-based index of the last space, -1 if there is none
RECURSIVE RFindSpace(_)
RFindSpace(s) ==
    IF s = <<>> THEN -1
    ELSE IF s[Len(s)] = SPACE THEN Len(s) - 1
    ELSE RFindSpace(SubSeq(s, 1, Len(s) - 1))

\* ------------------------------------------------------------------------
\* The font: font.get_height() and font.size(text)[0]
\* ------------------------------------------------------------------------
LINE_HEIGHT == 10

CharWidth(c) == IF c = 87 THEN 12 ELSE IF c = SPACE THEN 3 ELSE IF c = DOT THEN 4 ELSE 6

RECURSIVE TextWidth(_)
TextWidth(s) == IF s = <<>> THEN 0 ELSE CharWidth(Head(s)) + TextWidth(Tail(s))

\* ------------------------------------------------------------------------
\* ImageGrid.draw_wrapped_text: the lines it renders
\* ------------------------------------------------------------------------
\* the binary search of lines 216-227
RECURSIVE BinarySearchBest(_, _, _, _, _)
BinarySearchBest(remaining_text, low, high, best, max_width) ==
    IF low > high THEN best
    ELSE LET mid == (low + high) \div 2
             test_text == Prefix(remaining_text, mid)
         IN  IF TextWidth(test_text) <= max_width
             THEN BinarySearchBest(remaining_text, mid + 1, high, test_text, max_width)
             ELSE BinarySearchBest(remaining_text, low, mid - 1, best, max_width)

\* the fallback of lines 228-236, entered when the search found nothing
RECURSIVE EllipsisFallback(_, _, _)
EllipsisFallback(remaining_text, i, max_width) ==
    IF i = 0
    THEN IF TextWidth(ELLIPSIS) <= max_width THEN ELLIPSIS ELSE <<>>
    ELSE IF TextWidth(Prefix(remaining_text, i) \o ELLIPSIS) <= max_width
         THEN Prefix(remaining_text, i) \o ELLIPSIS
         ELSE EllipsisFallback(remaining_text, i - 1, max_width)

\* the word-boundary trim of lines 238-243
TrimToWord(best, remaining_text, max_width) ==
    IF (\E i \in 1..Len(best) : best[i] = SPACE) /\ Len(best) < Len(remaining_text)
    THEN LET last_space == RFindSpace(best)
             candidate == Prefix(best, last_space)
         IN  IF last_space > 0 /\ TextWidth(candidate) <= max_width
             THEN candidate ELSE best
    ELSE best

MaxLines(rect_height) == Max2(1, (rect_height - 10) \div LINE_HEIGHT)

\* the while loop of lines 215-247 without the test len(lines) < max_lines
RECURSIVE FitLoopNoLimit(_, _, _, _)
FitLoopNoLimit(remaining_text, lines, max_lines, max_width) ==
    IF remaining_text = <<>>
    THEN [lines |-> lines, remaining_text |-> remaining_text]
    ELSE LET found == BinarySearchBest(remaining_text, 0, Len(remaining_text),
                                       <<>>, max_width)
             best0 == IF found = <<>>
                      THEN EllipsisFallback(remaining_text, Len(remaining_text),
                                            max_width)
                      ELSE found
         IN  IF best0 = <<>>
             THEN [lines |-> lines, remaining_text |-> remaining_text]
             ELSE LET best == TrimToWord(best0, remaining_text, max_width)
                  IN  FitLoopNoLimit(LStrip(Suffix(remaining_text, Len(best))),
                                     Append(lines, best), max_lines, max_width)

\* the while loop of lines 215-247; the result is [lines, remaining_text]
RECURSIVE FitLoop(_, _, _, _)
FitLoop(remaining_text, lines, max_lines, max_width) ==
    IF remaining_text = <<>> \/ Len(lines) >= max_lines
    THEN [lines |-> lines, remaining_text |-> remaining_text]
    ELSE LET found == BinarySearchBest(remaining_text, 0, Len(remaining_text),
                                       <<>>, max_width)
             best0 == IF found = <<>>
                      THEN EllipsisFallback(remaining_text, Len(remaining_text),
                                            max_width)
                      ELSE found
         IN  IF best0 = <<>>
             THEN [lines |-> lines, remaining_text |-> remaining_text]
             ELSE LET best == TrimToWord(best0, remaining_text, max_width)
                  IN  FitLoop(LStrip(Suffix(remaining_text, Len(best))),
                              Append(lines, best), max_lines, max_width)

\* the while loop of lines 253-254
RECURSIVE ShortenLast(_, _)
ShortenLast(last_line, max_width) ==
    IF last_line # <<>>
       /\ TextWidth(SubSeq(last_line, 1, Len(last_line) - 1) \o ELLIPSIS) > max_width
    THEN ShortenLast(SubSeq(last_line, 1, Len(last_line) - 1), max_width)
    ELSE last_line

\* lines 248-255: the ellipsis on the last line when text remains
AddEllipsis(lines, remaining_text, max_lines, max_width) ==
    IF remaining_text # <<>> /\ Len(lines) = max_lines
    THEN LET last_line == lines[Len(lines)]
         IN  IF TextWidth(last_line) + TextWidth(ELLIPSIS) <= max_width
             THEN [lines EXCEPT ![Len(lines)] = last_line \o ELLIPSIS]
             ELSE [lines EXCEPT ![Len(lines)] =
                                     ShortenLast(last_line, max_width) \o ELLIPSIS]
    ELSE lines

\* draw_wrapped_text(surface, text, rect, font, color): the lines blitted
WrappedLines(text, rect_width, rect_height) ==
    IF text = <<>> \/ Strip(text) = <<>> THEN <<>>
    ELSE LET max_width == rect_width - 10
             max_lines == MaxLines(rect_height)
             r == FitLoop(Strip(text), <<>>, max_lines, max_width)
         IN  AddEllipsis(r.lines, r.remaining_text, max_lines, max_width)

\* ------------------------------------------------------------------------
\* The file system the program reads (os.listdir, os.path.isdir/isfile)
\* ------------------------------------------------------------------------
SLASH == 47

\* ".png"
DOT_PNG == <<DOT, 112, 110, 103>>

\* the extensions of lines 17, 112, 125, 139
SupportedExts ==
    { DOT_PNG, <<DOT, 106, 112, 103>>, <<DOT, 106, 112, 101, 103>>,
      <<DOT, 103, 105, 102>>, <<DOT, 98, 109, 112>>,
      <<DOT, 116, 105, 102, 102>>, <<DOT, 119, 101, 98, 112>> }

\* str.lower()
Lower(s) == [i \in 1..Len(s) |-> IF s[i] >= 65 /\ s[i] <= 90 THEN s[i] + 32 ELSE s[i]]

IsSupported(f) == \E e \in SupportedExts : EndsWith(Lower(f), e)

\* the index (1-based) of the last dot of s, 0 if there is none
RECURSIVE LastDot(_)
LastDot(s) ==
    IF s = <<>> THEN 0
    ELSE IF s[Len(s)] = DOT THEN Len(s) ELSE LastDot(SubSeq(s, 1, Len(s) - 1))

\* os.path.splitext(name)[0]
SplitExtStem(s) == IF LastDot(s) > 1 THEN SubSeq(s, 1, LastDot(s) - 1) ELSE s

\* os.path.join(a, b)
PathJoin(a, b) == a \o <<SLASH>> \o b

\* the order of Python's str comparison (by code point)
RECURSIVE StrLess(_, _)
StrLess(a, b) ==
    IF b = <<>> THEN FALSE
    ELSE IF a = <<>> THEN TRUE
    ELSE IF Head(a) # Head(b) THEN Head(a) < Head(b)
    ELSE StrLess(Tail(a), Tail(b))

\* sorted(S) for a set of strings
RECURSIVE Sorted(_)
Sorted(S) ==
    IF S = {} THEN <<>>
    ELSE LET m == CHOOSE x \in S : \A y \in S \ {x} : StrLess(x, y)
         IN  <<m>> \o Sorted(S \ {m})

\* "b" and "v": the base folder and the variants directory of the command line
BASE_FOLDER == <<98>>
SUBFOLDERS_DIR == <<118>>

\* "Base Images"
BASE_IMAGES_LABEL == <<66, 97, 115, 101, 32, 73, 109, 97, 103, 101, 115>>

\* a.png, b.png and n.txt in the base folder; v/a holds x.png and there is no
\* folder v/b
FileSystem ==
    [ base |-> { <<97>> \o DOT_PNG, <<98>> \o DOT_PNG, <<110, DOT, 116, 120, 116>> },
      variants |-> [ d \in { <<97>> } |-> { <<120>> \o DOT_PNG } ] ]

\* ------------------------------------------------------------------------
\* ImageGrid.build_grid: a dict row -> list, here a function on 0..rows-1
\* of functions on 0..len-1; the empty dict is <<>>
\* ------------------------------------------------------------------------
\* build_grid with every file of a variant folder taken as a row (line 139
\* without its test)
build_grid_any_file(filesystem) ==
    LET base_images == { f \in filesystem.base : IsSupported(f) }
        folders == Sorted(base_images)
        folder_name(c) == SplitExtStem(folders[c])
        folder_path(c) == PathJoin(SUBFOLDERS_DIR, folder_name(c))
        isdir(c) == folder_name(c) \in DOMAIN filesystem.variants
        all_filenames ==
            UNION { { f \in filesystem.variants[folder_name(c)] : TRUE } :
                    c \in { k \in 1..Len(folders) : isdir(k) } }
        sorted_filenames == Sorted(all_filenames)
        cell(row, col) ==
            IF row = 0 THEN (IF col = 0 THEN <<>> ELSE folder_name(col))
            ELSE IF row = 1
            THEN (IF col = 0 THEN BASE_IMAGES_LABEL
                  ELSE PathJoin(BASE_FOLDER, folders[col]))
            ELSE IF col = 0 THEN sorted_filenames[row - 1]
            ELSE IF isdir(col)
                    /\ sorted_filenames[row - 1] \in filesystem.variants[folder_name(col)]
            THEN PathJoin(folder_path(col), sorted_filenames[row - 1])
            ELSE PLACEHOLDER
    IN  IF base_images = {} THEN <<>>
        ELSE [ row \in 0..(Len(sorted_filenames) + 1) |->
                 [ col \in 0..Len(folders) |-> cell(row, col) ] ]

\* build_grid without the os.path.isfile test of line 152
build_grid_no_isfile(filesystem) ==
    LET base_images == { f \in filesystem.base : IsSupported(f) }
        folders == Sorted(base_images)
        folder_name(c) == SplitExtStem(folders[c])
        folder_path(c) == PathJoin(SUBFOLDERS_DIR, folder_name(c))
        isdir(c) == folder_name(c) \in DOMAIN filesystem.variants
        all_filenames ==
            UNION { { f \in filesystem.variants[folder_name(c)] : IsSupported(f) } :
                    c \in { k \in 1..Len(folders) : isdir(k) } }
        sorted_filenames == Sorted(all_filenames)
        cell(row, col) ==
            IF row = 0 THEN (IF col = 0 THEN <<>> ELSE folder_name(col))
            ELSE IF row = 1
            THEN (IF col = 0 THEN BASE_IMAGES_LABEL
                  ELSE PathJoin(BASE_FOLDER, folders[col]))
            ELSE IF col = 0 THEN sorted_filenames[row - 1]
            ELSE IF TRUE
            THEN PathJoin(folder_path(col), sorted_filenames[row - 1])
            ELSE PLACEHOLDER
    IN  IF base_images = {} THEN <<>>
        ELSE [ row \in 0..(Len(sorted_filenames) + 1) |->
                 [ col \in 0..Len(folders) |-> cell(row, col) ] ]

\* build_grid with a column for the base images whose folder exists only
build_grid_existing_folders(filesystem) ==
    LET base_images == { f \in filesystem.base : IsSupported(f) }
        folders ==
            Sorted({ f \in base_images : SplitExtStem(f) \in DOMAIN filesystem.variants })
        folder_name(c) == SplitExtStem(folders[c])
        folder_path(c) == PathJoin(SUBFOLDERS_DIR, folder_name(c))
        isdir(c) == folder_name(c) \in DOMAIN filesystem.variants
        all_filenames ==
            UNION { { f \in filesystem.variants[folder_name(c)] : IsSupported(f) } :
                    c \in { k \in 1..Len(folders) : isdir(k) } }
        sorted_filenames == Sorted(all_filenames)
        cell(row, col) ==
            IF row = 0 THEN (IF col = 0 THEN <<>> ELSE folder_name(col))
            ELSE IF row = 1
            THEN (IF col = 0 THEN BASE_IMAGES_LABEL
                  ELSE PathJoin(BASE_FOLDER, folders[col]))
            ELSE IF col = 0 THEN sorted_filenames[row - 1]
            ELSE IF isdir(col)
                    /\ sorted_filenames[row - 1] \in filesystem.variants[folder_name(col)]
            THEN PathJoin(folder_path(col), sorted_filenames[row - 1])
            ELSE PLACEHOLDER
    IN  IF base_images = {} THEN <<>>
        ELSE [ row \in 0..(Len(sorted_filenames) + 1) |->
                 [ col \in 0..Len(folders) |-> cell(row, col) ] ]

build_grid(filesystem) ==
    LET base_images == { f \in filesystem.base : IsSupported(f) }
        folders == Sorted(base_images)
        folder_name(c) == SplitExtStem(folders[c])
        folder_path(c) == PathJoin(SUBFOLDERS_DIR, folder_name(c))
        isdir(c) == folder_name(c) \in DOMAIN filesystem.variants
        all_filenames ==
            UNION { { f \in filesystem.variants[folder_name(c)] : IsSupported(f) } :
                    c \in { k \in 1..Len(folders) : isdir(k) } }
        sorted_filenames == Sorted(all_filenames)
        cell(row, col) ==
            IF row = 0 THEN (IF col = 0 THEN <<>> ELSE folder_name(col))
            ELSE IF row = 1
            THEN (IF col = 0 THEN BASE_IMAGES_LABEL
                  ELSE PathJoin(BASE_FOLDER, folders[col]))
            ELSE IF col = 0 THEN sorted_filenames[row - 1]
            ELSE IF isdir(col)
                    /\ sorted_filenames[row - 1] \in filesystem.variants[folder_name(col)]
            THEN PathJoin(folder_path(col), sorted_filenames[row - 1])
            ELSE PLACEHOLDER
    IN  IF base_images = {} THEN <<>>
        ELSE [ row \in 0..(Len(sorted_filenames) + 1) |->
                 [ col \in 0..Len(folders) |-> cell(row, col) ] ]

\* len(self.grid)
GridRows(g) == Cardinality(DOMAIN g)

\* len(self.grid[row])
RowLen(g, row) == Cardinality(DOMAIN g[row])

RECURSIVE SetMax(_)
SetMax(S) ==
    IF S = {} THEN 0
    ELSE LET x == CHOOSE y \in S : TRUE IN Max2(x, SetMax(S \ {x}))

\* max(len(row) for row in self.grid.values()) if self.grid else 0
GridCols(g) == SetMax({ RowLen(g, r) : r \in DOMAIN g })

IsPlaceholder(path) == StartsWith(path, PLACEHOLDER)

\* ------------------------------------------------------------------------
\* The viewport: update_cell_sizes, reset_viewport, get_visible_cells,
\* enforce_scroll_bounds
\* ------------------------------------------------------------------------
\* round(a) of a fraction that is not negative: the nearest integer, the even
\* one of the two when a lies halfway
RRound(a) ==
    LET below == a.n \div a.d
        rest == a.n - below * a.d
    IN  IF 2 * rest < a.d THEN below
        ELSE IF 2 * rest > a.d THEN below + 1
        ELSE IF below % 2 = 0 THEN below ELSE below + 1

\* round(DEFAULT_CELL_SIZE * self.zoom_level)
ZoomedSizeRounded(base, zoom) == RRound(RMul(RInt(base), zoom))

\* int(DEFAULT_CELL_SIZE * self.zoom_level)
ZoomedSize(base, zoom) == RTrunc(RMul(RInt(base), zoom))

\* update_cell_sizes: [col_widths, row_heights], lists indexed from 0
update_cell_sizes(base, zoom, rows, cols) ==
    LET zoomed_size == ZoomedSize(base, zoom)
    IN  [ col_widths |->
            [ col \in 0..(cols - 1) |->
                IF col = 0
                THEN Max2(MIN_TEXT_CELL_WIDTH,
                          Min2(MAX_FILENAME_WIDTH, Max2(MIN_FILENAME_WIDTH, zoomed_size)))
                ELSE zoomed_size ],
          row_heights |->
            [ row \in 0..(rows - 1) |->
                IF row = 0
                THEN Max2(MIN_TEXT_CELL_HEIGHT,
                          Min2(MAX_HEADER_HEIGHT, Max2(MIN_HEADER_HEIGHT, zoomed_size)))
                ELSE zoomed_size ] ]

\* reset_viewport: the zoom level it sets, for the window size `size`
ResetZoom(base, size) ==
    LET screen_width == size[1]
        screen_height == size[2]
        visible_cols == screen_width \div base
        visible_rows == (screen_height - INFO_HEIGHT) \div base
        required_zoom ==
            RMax(MIN_START_ZOOM,
                 RMin(RDivInt(RDivInt(RInt(screen_width), 3), base),
                      RDivInt(RDivInt(RInt(screen_height - INFO_HEIGHT), 3), base)))
    IN  IF visible_cols < 3 \/ visible_rows < 3 THEN required_zoom ELSE RInt(1)

\* reset_viewport: the cell size it sets
ResetCellSize(base, size) ==
    IF ResetZoom(base, size) = RInt(1) THEN base
    ELSE ZoomedSize(base, ResetZoom(base, size))

\* enforce_scroll_bounds without the lower bound max(0, .) of lines 491-492
enforce_upper_bound_only(offset, size, rows, cols, cell) ==
    LET max_scroll_x == Max2(0, cols * cell - size[1])
        max_scroll_y == Max2(0, rows * cell - (size[2] - INFO_HEIGHT))
    IN  << RMin(RInt(max_scroll_x), offset[1]),
           RMin(RInt(max_scroll_y), offset[2]) >>

\* enforce_scroll_bounds: the clamped offset <<x, y>> (not in fullscreen)
enforce_scroll_bounds(offset, size, rows, cols, cell) ==
    LET max_scroll_x == Max2(0, cols * cell - size[1])
        max_scroll_y == Max2(0, rows * cell - (size[2] - INFO_HEIGHT))
    IN  << RMax(RInt(0), RMin(RInt(max_scroll_x), offset[1])),
           RMax(RInt(0), RMin(RInt(max_scroll_y), offset[2])) >>

\* get_visible_cells without BUFFER_ROWS and BUFFER_COLS
get_visible_cells_unbuffered(offset, size, rows, cols, cell) ==
    LET view_height == size[2] - INFO_HEIGHT
    IN  [ start_row |-> Max2(0, RTrunc(RDivInt(offset[2], cell))),
          end_row |-> Min2(rows, RTrunc(RDivInt(RAdd(offset[2], RInt(view_height)), cell))),
          start_col |-> Max2(0, RTrunc(RDivInt(offset[1], cell))),
          end_col |-> Min2(cols, RTrunc(RDivInt(RAdd(offset[1], RInt(size[1])), cell))) ]

\* get_visible_cells: [start_row, end_row, start_col, end_col]; cell > 0
get_visible_cells(offset, size, rows, cols, cell) ==
    LET view_height == size[2] - INFO_HEIGHT
    IN  [ start_row |-> Max2(0, RTrunc(RDivInt(offset[2], cell))),
          end_row |-> Min2(rows, RTrunc(RDivInt(RAdd(offset[2], RInt(view_height)), cell))
                                 + BUFFER_ROWS),
          start_col |-> Max2(0, RTrunc(RDivInt(offset[1], cell))),
          end_col |-> Min2(cols, RTrunc(RDivInt(RAdd(offset[1], RInt(size[1])), cell))
                                 + BUFFER_COLS) ]

\* ------------------------------------------------------------------------
\* State
\* ------------------------------------------------------------------------
VARIABLES
    fs,                 \* the directory trees on disk
    DEFAULT_CELL_SIZE,  \* global, set by main from get_max_image_resolution
    screen_size,        \* the size of the global `screen` surface, <<w, h>>
    running,            \* the main loop has not died of an uncaught exception
    \* the ImageGrid object that main's variable `grid` refers to
    grid, max_rows, max_cols, image_cache,
    cell_size, zoom_level, scroll_offset, col_widths, row_heights,
    fullscreen_image, fullscreen_row, fullscreen_col,
    export_in_progress, current_progress, current_message, export_queue,
    worker,             \* the export thread started on this object
    detached,           \* export state of replaced ImageGrid objects whose
                        \* thread was running when main dropped them
    \* locals of main
    dragging, drag_start_pos, last_mouse_pos,
    export_button_rect, html_button_rect,
    filename, html_file,
    visible_cells,      \* local of draw: the range of the last frame drawn
    \* one call of draw_wrapped_text
    fit_text, fit_rect, fit_lines, fit_pc

gridVars == <<fs, DEFAULT_CELL_SIZE, grid, max_rows, max_cols>>
viewVars == <<cell_size, zoom_level, scroll_offset, col_widths, row_heights>>
fullVars == <<fullscreen_image, fullscreen_row, fullscreen_col>>
exportVars ==
    <<export_in_progress, current_progress, current_message, export_queue, worker>>
mouseVars == <<dragging, drag_start_pos, last_mouse_pos>>
rectVars == <<export_button_rect, html_button_rect, visible_cells>>
retVars == <<filename, html_file>>
fitVars == <<fit_text, fit_rect, fit_lines, fit_pc>>

vars ==
    <<gridVars, viewVars, fullVars, exportVars, mouseVars, rectVars, retVars,
      fitVars, screen_size, running, image_cache, detached>>

\* None, for a path, a position, a rectangle or a result
None == <<>>

\* None, for fullscreen_row and fullscreen_col
NoneIdx == -1

\* the thread record of an object with no export thread alive. A live thread
\* has its position pc, the kind of its job, how its body ended (outcome), the
\* the locals of _export_grid / _export_html before the body sets them:
\* column_0_width, row_0_height, total_width, total_height (lines 644-666),
\* cell_size (line 889), total (total_cells, line 670, or total_work, line
\* 898), processed (processed_cells or processed), visited (the cells the
\* loops have taken), image_errors (an except clause of line 727 or 951 ran)
NoLocals ==
    [ column_0_width |-> 0, row_0_height |-> 0, total_width |-> 0, total_height |-> 0,
      cell_size |-> 0, total |-> 0, processed |-> 0, visited |-> 0,
      image_errors |-> FALSE ]

\* local `result`, the tuples it has put on the queue (posts of them, the
\* last one posted), and the locals of _export_grid / _export_html once the
\* body is taken cell by cell
IdleWorker == [pc |-> "idle", kind |-> "none", outcome |-> "none", result |-> None,
               posts |-> 0, posted |-> None, locals |-> NoLocals]

\* "g.png": the name start_export_grid makes up (lines 594-596)
EXPORT_PNG_NAME == <<103>> \o DOT_PNG

\* "h/i": os.path.join(output_folder, "index.html")
EXPORT_HTML_INDEX == PathJoin(<<104>>, <<105>>)

\* the directory trees the model starts from, and the grid build_grid makes
\* of each (computed once)
FileSystems == { FileSystem }

\* what os.listdir(base_folder) may hold: nothing, n.txt alone, one image and
\* n.txt, a.png and b.PNG, or a.png, b.png and c.png
BaseFolders ==
    { {}, { <<110, DOT, 116, 120, 116>> },
      { <<97>> \o DOT_PNG, <<110, DOT, 116, 120, 116>> },
      { <<97>> \o DOT_PNG, <<98, DOT, 80, 78, 71>> },
      { <<97>> \o DOT_PNG, <<98>> \o DOT_PNG, <<99>> \o DOT_PNG } }

\* what a folder of the variants directory may hold: nothing, x.png, Y.png,
\* or x.png, Y.png and n.txt
VariantFolderContents ==
    { {}, { <<120>> \o DOT_PNG }, { <<89>> \o DOT_PNG },
      { <<120>> \o DOT_PNG, <<89>> \o DOT_PNG, <<110, DOT, 116, 120, 116>> } }

\* the directory trees of the grid construction: any of the folders v/a and
\* v/b may exist, with any of those contents; there is no folder v/c
BuildFileSystems ==
    { [ base |-> b, variants |-> v ] :
        b \in BaseFolders,
        v \in UNION { [ D -> VariantFolderContents ] : D \in SUBSET { <<97>>, <<98>> } } }

\* 12 base images a.png .. l.png, and the folder v/a with 8 derived files
\* p.png .. w.png: a grid of 10 rows and 13 columns
WideFileSystem ==
    [ base |-> { <<c>> \o DOT_PNG : c \in 97..108 },
      variants |-> [ d \in { <<97>> } |-> { <<c>> \o DOT_PNG : c \in 112..119 } ] ]

BuiltGrids ==
    [ filesystem \in FileSystems \cup BuildFileSystems \cup { WideFileSystem }
        |-> build_grid(filesystem) ]

\* get_max_image_resolution (lines 15-28), for a folder whose largest image
\* dimension is res: 10 when the folder holds no image
get_max_image_resolution(filesystem, res) ==
    IF { f \in filesystem.base : IsSupported(f) } = {} THEN 10 ELSE res

\* ImageGrid.__init__ for the window size `size`: the fields of the new object
NewImageGrid(filesystem, base, size) ==
    LET g == BuiltGrids[filesystem]
        rows == GridRows(g)
        cols == GridCols(g)
        zoom == ResetZoom(base, size)
        sizes == update_cell_sizes(base, zoom, rows, cols)
    IN  [ grid |-> g, max_rows |-> rows, max_cols |-> cols,
          zoom_level |-> zoom, cell_size |-> ResetCellSize(base, size),
          col_widths |-> sizes.col_widths, row_heights |-> sizes.row_heights ]

\* main, lines 1002-1017: the window is 1024x768 and the loop is about to start
InitProgram(filesystems, bases) ==
    /\ fs \in filesystems
    /\ DEFAULT_CELL_SIZE \in bases
    /\ screen_size = <<1024, 768>>
    /\ running = TRUE
    /\ LET o == NewImageGrid(fs, DEFAULT_CELL_SIZE, screen_size)
       IN  /\ grid = o.grid
           /\ max_rows = o.max_rows
           /\ max_cols = o.max_cols
           /\ zoom_level = o.zoom_level
           /\ cell_size = o.cell_size
           /\ col_widths = o.col_widths
           /\ row_heights = o.row_heights
    /\ scroll_offset = <<RInt(0), RInt(0)>>
    /\ image_cache = {}
    /\ fullscreen_image = None
    /\ fullscreen_row = NoneIdx
    /\ fullscreen_col = NoneIdx
    /\ export_in_progress = FALSE
    /\ current_progress = RInt(0)
    /\ current_message = ""
    /\ export_queue = <<>>
    /\ worker = IdleWorker
    /\ detached = EmptyBag
    /\ dragging = FALSE
    /\ drag_start_pos = None
    /\ last_mouse_pos = <<0, 0>>
    /\ export_button_rect = None
    /\ html_button_rect = None
    /\ visible_cells = None
    /\ filename = None
    /\ html_file = None

FitIdle ==
    /\ fit_text = <<>>
    /\ fit_rect = <<0, 0>>
    /\ fit_lines = <<>>
    /\ fit_pc = "off"

\* ------------------------------------------------------------------------
\* The main loop: draw
\* ------------------------------------------------------------------------
Fullscreen == fullscreen_image # None

\* the cells draw passes to load_image (lines 298-303)
DrawnCells(g, vc) ==
    { <<row, col>> \in (0..vc.end_row) \X (0..(vc.end_col + 1)) :
        /\ row >= Max2(1, vc.start_row)
        /\ row \in DOMAIN g
        /\ col >= Max2(1, vc.start_col)
        /\ col < Min2(vc.end_col + 1, RowLen(g, row)) }

\* load_image that forgets a failed decode: line 189 left out
load_image_drops_failure(cache, path, decodes) ==
    IF IsPlaceholder(path)
    THEN [ cache |-> cache, decoder |-> 0, returns |-> "placeholder" ]
    ELSE IF path \notin cache
    THEN IF decodes
         THEN [ cache |-> cache \cup { path }, decoder |-> 1, returns |-> "image" ]
         ELSE [ cache |-> cache, decoder |-> 1, returns |-> "error" ]
    ELSE [ cache |-> cache, decoder |-> 0, returns |-> "cached" ]

\* load_image(path) (lines 169-191): the keys the cache holds afterwards, the
\* number of calls of pygame.image.load, and what is returned. `decodes`
\* tells whether pygame.image.load succeeds (line 179) or raises (line 182)
load_image(cache, path, decodes) ==
    IF IsPlaceholder(path)
    THEN [ cache |-> cache, decoder |-> 0, returns |-> "placeholder" ]
    ELSE IF path \notin cache
    THEN IF decodes
         THEN [ cache |-> cache \cup { path }, decoder |-> 1, returns |-> "image" ]
         ELSE [ cache |-> cache \cup { path }, decoder |-> 1, returns |-> "error" ]
    ELSE [ cache |-> cache, decoder |-> 0, returns |-> "cached" ]

\* the paths of those cells that are not keys of the cache: for the others
\* load_image returns the cached surface (lines 177, 191)
UncachedPaths(cache, g, cells) == { g[rc[1]][rc[2]] : rc \in cells } \ cache

\* what pygame.image.load may do in a frame that draws those cells: succeed
\* or raise, when load_image calls it for one of them
DecodeOutcomes(cache, g, cells) ==
    IF \E path \in UncachedPaths(cache, g, cells) : ~IsPlaceholder(path)
    THEN BOOLEAN ELSE { TRUE }

\* load_image over those cells (no two of them hold the same path): the
\* keys the cache holds afterwards
load_images(cache, g, cells, decodes) ==
    cache \cup { path \in UncachedPaths(cache, g, cells) :
                    path \in load_image(cache, path, decodes).cache }

\* visible_paths of unload_distant_images (lines 195-199)
VisiblePaths(g, vc) ==
    { g[rc[1]][rc[2]] :
        rc \in { c \in (0..vc.end_row) \X (0..(vc.end_col + 1)) :
                   /\ c[1] >= vc.start_row
                   /\ c[1] \in DOMAIN g
                   /\ c[2] >= vc.start_col
                   /\ c[2] < Min2(vc.end_col + 1, RowLen(g, c[1])) } }

\* unload_distant_images that deletes nothing
unload_nothing(cache, g, vc, keep) == cache

\* unload_distant_images: the keys that stay in the cache
unload_distant_images(cache, g, vc, keep) ==
    { path \in cache : path \in VisiblePaths(g, vc) \/ path = keep }

\* the button rectangles draw returns, <<x, y, w, h>>
ExportButtonRect(size) == <<size[1] - 110, 5, 110, 20>>

HtmlButtonRect(size) == <<size[1] - 110 - 10 - 110, 5, 110, 20>>

\* pygame.Rect.collidepoint
CollidePoint(rect, pos) ==
    /\ rect # None
    /\ rect[1] <= pos[1] /\ pos[1] < rect[1] + rect[3]
    /\ rect[2] <= pos[2] /\ pos[2] < rect[2] + rect[4]

\* grid.draw(screen) (lines 283-405) and the assignment of its result (line 1019)
Draw ==
    /\ running
    /\ IF Fullscreen
       THEN /\ export_button_rect' = None
            /\ html_button_rect' = None
            /\ UNCHANGED <<image_cache, export_queue, running, visible_cells>>
       ELSE IF cell_size = 0 \/ max_cols = 0
       THEN \* ZeroDivisionError (line 161) or IndexError (line 379)
            /\ running' = FALSE
            /\ UNCHANGED <<image_cache, export_queue, rectVars>>
       ELSE LET vc == get_visible_cells(scroll_offset, screen_size, max_rows,
                                        max_cols, cell_size)
            IN  /\ \E decodes \in DecodeOutcomes(image_cache, grid, DrawnCells(grid, vc)) :
                       image_cache' =
                           unload_distant_images(
                               load_images(image_cache, grid, DrawnCells(grid, vc),
                                           decodes),
                               grid, vc, fullscreen_image)
                /\ export_queue' =
                       IF export_queue = <<>> THEN export_queue ELSE Tail(export_queue)
                /\ export_button_rect' = ExportButtonRect(screen_size)
                /\ html_button_rect' = HtmlButtonRect(screen_size)
                /\ visible_cells' = vc
                /\ UNCHANGED running
    /\ UNCHANGED <<gridVars, viewVars, fullVars, export_in_progress, current_progress,
                   current_message, worker, mouseVars, retVars, fitVars, screen_size,
                   detached>>

\* ------------------------------------------------------------------------
\* ImageGrid.scroll and ImageGrid.zoom
\* ------------------------------------------------------------------------
\* scroll(dx, dy): the new scroll_offset
scroll(dx, dy) ==
    IF Fullscreen THEN scroll_offset
    ELSE enforce_scroll_bounds(<<RAdd(scroll_offset[1], RInt(dx)),
                                 RAdd(scroll_offset[2], RInt(dy))>>,
                               screen_size, max_rows, max_cols, cell_size)

\* line 473 without max and min
ZoomLevelUnclamped(direction) ==
    RAdd(zoom_level, RMul(RInt(direction), ZOOM_SPEED))

\* line 473: the clamped zoom level
ZoomLevelAfter(direction) ==
    RMax(MIN_ZOOM, RMin(MAX_ZOOM, RAdd(zoom_level, RMul(RInt(direction), ZOOM_SPEED))))

\* lines 476-480 with the grid point taken in cells of the new size: the
\* offset does not move
AnchoredOffsetNewCell(mouse_pos, new_cell) ==
    LET grid_x == RDivInt(RAdd(scroll_offset[1], RInt(mouse_pos[1])), new_cell)
        grid_y == RDivInt(RAdd(scroll_offset[2], RInt(mouse_pos[2] - INFO_HEIGHT)),
                          new_cell)
    IN  << RSub(RMul(grid_x, RInt(new_cell)), RInt(mouse_pos[1])),
           RSub(RMul(grid_y, RInt(new_cell)), RInt(mouse_pos[2] - INFO_HEIGHT)) >>

\* lines 476-480: the offset that keeps the grid point under mouse_pos in
\* place, before enforce_scroll_bounds; cell_size > 0
AnchoredOffset(mouse_pos, new_cell) ==
    LET grid_x == RDivInt(RAdd(scroll_offset[1], RInt(mouse_pos[1])), cell_size)
        grid_y == RDivInt(RAdd(scroll_offset[2], RInt(mouse_pos[2] - INFO_HEIGHT)),
                          cell_size)
    IN  << RSub(RMul(grid_x, RInt(new_cell)), RInt(mouse_pos[1])),
           RSub(RMul(grid_y, RInt(new_cell)), RInt(mouse_pos[2] - INFO_HEIGHT)) >>

\* zoom(direction, mouse_pos) outside fullscreen; mouse_pos is None or <<x, y>>.
\* raised: the division of line 476 by a cell size of 0
zoom(direction, mouse_pos) ==
    LET new_zoom == ZoomLevelAfter(direction)
        sizes == update_cell_sizes(DEFAULT_CELL_SIZE, new_zoom, max_rows, max_cols)
        new_cell == ZoomedSize(DEFAULT_CELL_SIZE, new_zoom)
    IN  IF mouse_pos # None /\ cell_size = 0
        THEN [ zoom_level |-> new_zoom, cell_size |-> cell_size,
               scroll_offset |-> scroll_offset, col_widths |-> sizes.col_widths,
               row_heights |-> sizes.row_heights, raised |-> TRUE ]
        ELSE [ zoom_level |-> new_zoom, cell_size |-> new_cell,
               scroll_offset |->
                   enforce_scroll_bounds(
                       IF mouse_pos # None THEN AnchoredOffset(mouse_pos, new_cell)
                       ELSE scroll_offset,
                       screen_size, max_rows, max_cols, new_cell),
               col_widths |-> sizes.col_widths, row_heights |-> sizes.row_heights,
               raised |-> FALSE ]

\* zoom without the test of lines 470-471
DoZoomWhileFocused(direction, mouse_pos) ==
    LET z == zoom(direction, mouse_pos)
    IN  /\ z.scroll_offset[1].d <= MaxDen
        /\ z.scroll_offset[2].d <= MaxDen
        /\ zoom_level' = z.zoom_level
        /\ cell_size' = z.cell_size
        /\ scroll_offset' = z.scroll_offset
        /\ col_widths' = z.col_widths
        /\ row_heights' = z.row_heights
        /\ running' = ~z.raised

\* the effect of a call of zoom on the state
DoZoom(direction, mouse_pos) ==
    IF Fullscreen THEN UNCHANGED <<viewVars, running>>
    ELSE LET z == zoom(direction, mouse_pos)
         IN  /\ z.scroll_offset[1].d <= MaxDen
             /\ z.scroll_offset[2].d <= MaxDen
             /\ zoom_level' = z.zoom_level
             /\ cell_size' = z.cell_size
             /\ scroll_offset' = z.scroll_offset
             /\ col_widths' = z.col_widths
             /\ row_heights' = z.row_heights
             /\ running' = ~z.raised

\* ------------------------------------------------------------------------
\* ImageGrid.toggle_fullscreen and ImageGrid.navigate_fullscreen
\* ------------------------------------------------------------------------
\* toggle_fullscreen that clears fullscreen_image alone (lines 503-506 without
\* lines 505-506)
toggle_fullscreen_image_only(row, col) ==
    IF fullscreen_row = row /\ fullscreen_col = col
    THEN /\ fullscreen_image' = None
         /\ UNCHANGED <<fullscreen_row, fullscreen_col>>
    ELSE /\ fullscreen_image' = grid[row][col]
         /\ fullscreen_row' = row
         /\ fullscreen_col' = col

toggle_fullscreen(row, col) ==
    IF fullscreen_row = row /\ fullscreen_col = col
    THEN /\ fullscreen_image' = None
         /\ fullscreen_row' = NoneIdx
         /\ fullscreen_col' = NoneIdx
    ELSE /\ fullscreen_image' = grid[row][col]
         /\ fullscreen_row' = row
         /\ fullscreen_col' = col

\* the target without the floors max(1, .) of lines 538 and 547
NavigateTargetNoFloor(direction) ==
    LET row == fullscreen_row
        col == fullscreen_col
    IN  CASE direction = "left" -> <<row, col - 1>>
          [] direction = "right" ->
                 IF col + 1 < RowLen(grid, row) THEN <<row, col + 1>> ELSE None
          [] direction = "up" -> <<row - 1, col>>
          [] direction = "down" ->
                 IF row + 1 < max_rows THEN <<row + 1, col>> ELSE None
          [] OTHER -> None

\* lines 535-556: the cell the direction leads to, None for an early return
NavigateTarget(direction) ==
    LET row == fullscreen_row
        col == fullscreen_col
    IN  CASE direction = "left" -> <<row, Max2(1, col - 1)>>
          [] direction = "right" ->
                 IF col + 1 < RowLen(grid, row) THEN <<row, col + 1>> ELSE None
          [] direction = "up" -> <<Max2(1, row - 1), col>>
          [] direction = "down" ->
                 IF row + 1 < max_rows THEN <<row + 1, col>> ELSE None
          [] OTHER -> None

\* navigate_fullscreen without the early return of lines 557-558
navigate_fullscreen_no_same_check(direction) ==
    IF ~Fullscreen \/ fullscreen_row = NoneIdx \/ fullscreen_col = NoneIdx
    THEN UNCHANGED fullVars
    ELSE LET t == NavigateTarget(direction)
         IN  IF t = None THEN UNCHANGED fullVars
             ELSE IF t[1] \notin DOMAIN grid \/ t[2] >= RowLen(grid, t[1])
             THEN UNCHANGED fullVars
             ELSE toggle_fullscreen(t[1], t[2])

navigate_fullscreen(direction) ==
    IF ~Fullscreen \/ fullscreen_row = NoneIdx \/ fullscreen_col = NoneIdx
    THEN UNCHANGED fullVars
    ELSE LET t == NavigateTarget(direction)
         IN  IF t = None THEN UNCHANGED fullVars
             ELSE IF t[1] = fullscreen_row /\ t[2] = fullscreen_col
             THEN UNCHANGED fullVars
             ELSE IF t[1] \notin DOMAIN grid \/ t[2] >= RowLen(grid, t[1])
             THEN UNCHANGED fullVars
             ELSE toggle_fullscreen(t[1], t[2])

\* ------------------------------------------------------------------------
\* The click hit test of main (lines 1051-1071)
\* ------------------------------------------------------------------------
RECURSIVE SumTo(_, _)
SumTo(sizes, idx) == IF idx < 0 THEN 0 ELSE sizes[idx] + SumTo(sizes, idx - 1)

\* the first index whose running total (from `start`) exceeds v, else -1
HitIndex(sizes, start, v) ==
    LET hits == { idx \in DOMAIN sizes : RLT(v, RInt(start + SumTo(sizes, idx))) }
    IN  IF hits = {} THEN -1 ELSE CHOOSE idx \in hits : \A j \in hits : idx <= j

ClickCol(mouse_pos) ==
    HitIndex(col_widths, 0, RAdd(RInt(mouse_pos[1]), scroll_offset[1]))

ClickRow(mouse_pos) ==
    HitIndex(row_heights, INFO_HEIGHT, RAdd(RInt(mouse_pos[2]), scroll_offset[2]))

\* the condition of lines 1066-1070
ClickHitsCell(mouse_pos) ==
    LET row_index == ClickRow(mouse_pos)
        col_index == ClickCol(mouse_pos)
    IN  /\ row_index >= 0 /\ col_index >= 0
        /\ row_index \in DOMAIN grid
        /\ col_index < RowLen(grid, row_index)
        /\ row_index >= 1
        /\ col_index >= 1

\* ------------------------------------------------------------------------
\* Export jobs: start_export_grid, start_export_html and their threads
\* ------------------------------------------------------------------------
\* the (row, col) pairs of a grid
CellsOf(g) == UNION { { <<row, col>> : col \in DOMAIN g[row] } : row \in DOMAIN g }

\* the data cells that hold an image path
ImageCells(g) ==
    { rc \in CellsOf(g) : rc[1] >= 1 /\ rc[2] >= 1 /\ ~IsPlaceholder(g[rc[1]][rc[2]]) }

\* the value of current_progress after the last cell of the job's loop, when
\* every image decodes (lines 670-677, and 891-909 with 948-950)
FinalProgress(kind, g, rows, cols) ==
    IF kind = "grid"
    THEN Rat(Cardinality(CellsOf(g)), cols * rows)
    ELSE Rat(Cardinality(CellsOf(g)) + Cardinality(ImageCells(g)),
             Cardinality(CellsOf(g))
             + Cardinality({ rc \in ImageCells(g) : rc[1] > 1 }))

\* start_export without the test of lines 589-590 / 736-737
start_export_unguarded(kind, message) ==
    /\ export_in_progress' = TRUE
    /\ current_progress' = RInt(0)
    /\ current_message' = message
    /\ worker' = [pc |-> "body", kind |-> kind, outcome |-> "none",
                  result |-> None, posts |-> 0, posted |-> None, locals |-> NoLocals]
    /\ UNCHANGED export_queue

\* start_export_grid / start_export_html (lines 588-597, 735-741): the effect
\* on the object's export fields
start_export(kind, message) ==
    IF export_in_progress THEN UNCHANGED exportVars
    ELSE /\ export_in_progress' = TRUE
         /\ current_progress' = RInt(0)
         /\ current_message' = message
         /\ worker' = [pc |-> "body", kind |-> kind, outcome |-> "none",
                       result |-> None, posts |-> 0, posted |-> None,
                       locals |-> NoLocals]
         /\ UNCHANGED export_queue

\* what the call returns
StartReturn(name) == IF export_in_progress THEN None ELSE name

\* the model explores no run with more than MaxQueue results waiting
QueueRoom == export_in_progress \/ Len(export_queue) < MaxQueue

\* the export fields of the current object, with what the job reads
CurrentObject ==
    [ grid |-> grid, max_rows |-> max_rows, max_cols |-> max_cols,
      export_in_progress |-> export_in_progress,
      current_progress |-> current_progress, export_queue |-> export_queue,
      worker |-> worker ]

\* the body without its except clause: an exception leaves the try block of
\* the thread before the put and only the finally clause runs
ExportBodyUncaught(o, outcome) ==
    [ o EXCEPT
        !.current_progress =
            IF outcome = "fail_early" THEN @
            ELSE FinalProgress(o.worker.kind, o.grid, o.max_rows, o.max_cols),
        !.worker.outcome = outcome,
        !.worker.result =
            IF outcome # "ok" THEN None
            ELSE IF o.worker.kind = "grid" THEN EXPORT_PNG_NAME
            ELSE EXPORT_HTML_INDEX,
        !.worker.pc = IF outcome = "ok" THEN "put" ELSE "finally" ]

\* _export_grid / _export_html as one step. outcome: "ok", "fail_early" (an
\* exception before the cell loop), "fail_late" (an exception after it); every
\* exception is caught in the body and turns the result into None
ExportBody(o, outcome) ==
    [ o EXCEPT
        !.current_progress =
            IF outcome = "fail_early" THEN @
            ELSE FinalProgress(o.worker.kind, o.grid, o.max_rows, o.max_cols),
        !.worker.outcome = outcome,
        !.worker.result =
            IF outcome # "ok" THEN None
            ELSE IF o.worker.kind = "grid" THEN EXPORT_PNG_NAME
            ELSE EXPORT_HTML_INDEX,
        !.worker.pc = "put" ]

\* the put of a thread that has cleared export_in_progress first (line 603
\* before line 601)
ExportPutAfterClear(o) ==
    [ o EXCEPT
        !.export_in_progress = FALSE,
        !.export_queue = Append(@, <<o.worker.kind, o.worker.result>>),
        !.worker.posts = @ + 1,
        !.worker.posted = <<o.worker.kind, o.worker.result>>,
        !.worker.pc = "finally" ]

\* self.export_queue.put((kind, result)) (lines 601, 745)
ExportPut(o) ==
    [ o EXCEPT
        !.export_queue = Append(@, <<o.worker.kind, o.worker.result>>),
        !.worker.posts = @ + 1,
        !.worker.posted = <<o.worker.kind, o.worker.result>>,
        !.worker.pc = "finally" ]

\* finally: self.export_in_progress = False (lines 602-603, 746-747); the
\* thread ends
ExportFinally(o) ==
    [ o EXCEPT !.export_in_progress = FALSE, !.worker = IdleWorker ]

Outcomes == { "ok", "fail_early", "fail_late" }

SetCurrent(o) ==
    /\ export_in_progress' = o.export_in_progress
    /\ current_progress' = o.current_progress
    /\ export_queue' = o.export_queue
    /\ worker' = o.worker
    /\ UNCHANGED current_message

notExport ==
    <<gridVars, viewVars, fullVars, mouseVars, rectVars, retVars, fitVars,
      screen_size, running, image_cache>>

\* the body as a step that empties the image cache of the object as well
WorkerBodyClearsCache ==
    /\ running /\ worker.pc = "body"
    /\ \E outcome \in Outcomes : SetCurrent(ExportBody(CurrentObject, outcome))
    /\ image_cache' = {}
    /\ UNCHANGED <<gridVars, viewVars, fullVars, mouseVars, rectVars, retVars, fitVars,
                   screen_size, running, detached>>

WorkerBody ==
    /\ running /\ worker.pc = "body"
    /\ \E outcome \in Outcomes : SetCurrent(ExportBody(CurrentObject, outcome))
    /\ UNCHANGED <<notExport, detached>>

WorkerPut ==
    /\ running /\ worker.pc = "put"
    /\ SetCurrent(ExportPut(CurrentObject))
    /\ UNCHANGED <<notExport, detached>>

WorkerFinally ==
    /\ running /\ worker.pc = "finally"
    /\ SetCurrent(ExportFinally(CurrentObject))
    /\ UNCHANGED <<notExport, detached>>

\* the same three steps of a thread whose ImageGrid object main has replaced;
\* nothing refers to that object once its thread has ended. The replaced
\* objects have no order: detached is a bag of them.
Ended(o) == detached (-) SetToBag({ o })

Stepped(o, after) == Ended(o) (+) SetToBag({ after })

DetachedBody ==
    /\ running
    /\ \E o \in BagToSet(detached) : \E outcome \in Outcomes :
          /\ o.worker.pc = "body"
          /\ detached' = Stepped(o, ExportBody(o, outcome))
    /\ UNCHANGED <<notExport, exportVars>>

DetachedPut ==
    /\ running
    /\ \E o \in BagToSet(detached) :
          /\ o.worker.pc = "put"
          /\ detached' = Stepped(o, ExportPut(o))
    /\ UNCHANGED <<notExport, exportVars>>

DetachedFinally ==
    /\ running
    /\ \E o \in BagToSet(detached) :
          /\ o.worker.pc = "finally"
          /\ detached' = Ended(o)
    /\ UNCHANGED <<notExport, exportVars>>

\* ------------------------------------------------------------------------
\* _export_grid and _export_html cell by cell: the layout pass, one step for
\* each cell of the loops, and the save
\* ------------------------------------------------------------------------
\* font.getbbox(text) of the export font, (x0, y0, x1, y1)
GetBBox(text) == <<0, 0, 8 * Len(text), 10>>

\* lines 644-652: the width of column 0
ExportColumn0Width(o) ==
    LET texts == { o.grid[row][0] :
                     row \in { r \in DOMAIN o.grid :
                                 r > 0 /\ r < o.max_rows /\ RowLen(o.grid, r) > 0 } }
    IN  SetMax({ MIN_COLUMN_0_WIDTH }
               \cup { Min2(GetBBox(text)[3] - GetBBox(text)[1] + 20, MAX_COLUMN_0_WIDTH) :
                        text \in texts \ { <<>> } })

\* lines 653-664: the height of row 0; a header has one line (no '\n' in it)
ExportRow0Height(o) ==
    LET texts == IF 0 \in DOMAIN o.grid
                 THEN { o.grid[0][col] : col \in DOMAIN o.grid[0] } \ { <<>> }
                 ELSE {}
        line_height == GetBBox(<<65>>)[4] - GetBBox(<<65>>)[2]
    IN  SetMax({ MIN_ROW_0_HEIGHT }
               \cup { Min2(MIN_ROW_0_HEIGHT + (1 * line_height), MAX_ROW_0_HEIGHT) :
                        text \in texts })

\* line 670 with the data cells alone
ExportTotalCellsDataOnly(o) == (o.max_cols - 1) * (o.max_rows - 1)

\* line 670: total_cells
ExportTotalCells(o) == o.max_cols * o.max_rows

\* lines 891-898: total_work
ExportTotalWork(o) ==
    Cardinality(CellsOf(o.grid))
    + Cardinality({ rc \in ImageCells(o.grid) : rc[1] > 1 })

\* the cells in the order of the loops of lines 672-675 and 903-907
RECURSIVE CellOrder(_, _, _)
CellOrder(g, rows, row) ==
    IF row >= rows THEN <<>>
    ELSE (IF row \in DOMAIN g
          THEN [ k \in 1..RowLen(g, row) |-> <<row, k - 1>> ]
          ELSE <<>>)
         \o CellOrder(g, rows, row + 1)

\* the cell the loops take next
NextCell(o) == CellOrder(o.grid, o.max_rows, 0)[o.worker.locals.visited + 1]

CellsLeft(o) == o.worker.locals.visited < Len(CellOrder(o.grid, o.max_rows, 0))

\* lines 678-682: the box of the cell, for the value `cell` of self.cell_size
\* at that moment
CellBox(o, cell, rc) ==
    LET l == o.worker.locals
        cell_width == IF rc[2] = 0 THEN l.column_0_width ELSE cell
        cell_height == IF rc[1] = 0 THEN l.row_0_height ELSE cell
        x == IF rc[2] = 0 THEN 0 ELSE l.column_0_width + (rc[2] - 1) * cell
        y == IF rc[1] = 0 THEN 0 ELSE l.row_0_height + (rc[1] - 1) * cell
    IN  <<x, y, x + cell_width, y + cell_height>>

\* the test of lines 720 and 930: a data cell that holds a path
IsImageCell(o, rc) ==
    rc[1] >= 1 /\ rc[2] >= 1 /\ ~IsPlaceholder(o.grid[rc[1]][rc[2]])

\* the layout pass: lines 643-671 of _export_grid and 753-902 of _export_html,
\* for the values `cell` of self.cell_size and `zoom_lvl` of self.zoom_level.
\* outcome: "ok", or "fail_early" (the font or the output folder cannot be
\* made: the except clause of line 731 or 971 returns None)
ExportLayout(o, base, cell, zoom_lvl, outcome) ==
    IF outcome # "ok"
    THEN [ o EXCEPT !.worker.outcome = outcome, !.worker.result = None,
                    !.worker.pc = "put" ]
    ELSE IF o.worker.kind = "grid"
    THEN [ o EXCEPT
             !.worker.pc = "cells",
             !.worker.locals =
                 [ NoLocals EXCEPT
                     !.column_0_width = ExportColumn0Width(o),
                     !.row_0_height = ExportRow0Height(o),
                     !.total_width = ExportColumn0Width(o) + (o.max_cols - 1) * cell,
                     !.total_height = ExportRow0Height(o) + (o.max_rows - 1) * cell,
                     !.total = ExportTotalCells(o) ] ]
    ELSE [ o EXCEPT
             !.worker.pc = "cells",
             !.worker.locals =
                 [ NoLocals EXCEPT
                     !.cell_size = ZoomedSize(base, zoom_lvl),
                     !.total = ExportTotalWork(o) ] ]

\* one pass of the inner loop in which an error of the image aborts the job
ExportCellAbortOnError(o, cell, decoded) ==
    LET l == o.worker.locals
        rc == NextCell(o)
        image == IsImageCell(o, rc)
    IN  IF image /\ ~decoded
        THEN [ o EXCEPT !.worker.outcome = "fail_late", !.worker.result = None,
                        !.worker.pc = "put" ]
        ELSE [ o EXCEPT
                 !.current_progress =
                     Rat(l.processed + (IF image /\ o.worker.kind = "html" THEN 2 ELSE 1),
                         l.total),
                 !.worker.locals.processed =
                     @ + (IF image /\ o.worker.kind = "html" THEN 2 ELSE 1),
                 !.worker.locals.visited = @ + 1 ]

\* one pass of the inner loop: lines 676-728 of _export_grid, 908-957 of
\* _export_html. `decoded`: the image file opens and is resized; resize
\* raises for a target size that is not positive (lines 723-724, 936-940)
ExportCell(o, cell, decoded) ==
    LET l == o.worker.locals
        rc == NextCell(o)
        image == IsImageCell(o, rc)
        box == CellBox(o, cell, rc)
        target_ok ==
            IF o.worker.kind = "grid"
            THEN /\ box[3] - box[1] - 2 * CELL_PADDING > 0
                 /\ box[4] - box[2] - 2 * CELL_PADDING > 0
            ELSE l.cell_size - 2 * CELL_PADDING > 0
        ok == decoded /\ target_ok
        steps == IF o.worker.kind = "html" /\ image /\ ok THEN 2 ELSE 1
    IN  [ o EXCEPT
            !.current_progress = Rat(l.processed + steps, l.total),
            !.worker.locals.processed = @ + steps,
            !.worker.locals.visited = @ + 1,
            !.worker.locals.image_errors = @ \/ (image /\ ~ok) ]

\* after the loops: image.save (line 729) or the write of index.html (lines
\* 958-969). outcome: "ok", or "fail_late" (the write raises, the except
\* clause returns None)
ExportSave(o, outcome) ==
    [ o EXCEPT
        !.worker.outcome = outcome,
        !.worker.result =
            IF outcome # "ok" THEN None
            ELSE IF o.worker.kind = "grid" THEN EXPORT_PNG_NAME
            ELSE EXPORT_HTML_INDEX,
        !.worker.pc = "put" ]

WorkerLayout ==
    /\ running /\ worker.pc = "body"
    /\ \E outcome \in { "ok", "fail_early" } :
          SetCurrent(ExportLayout(CurrentObject, DEFAULT_CELL_SIZE, cell_size,
                                  zoom_level, outcome))
    /\ UNCHANGED <<notExport, detached>>

\* a pass of the inner loop, the image files decoding as `decodes` allows
WorkerCell(decodes) ==
    /\ running /\ worker.pc = "cells" /\ CellsLeft(CurrentObject)
    /\ \E decoded \in decodes :
          SetCurrent(ExportCell(CurrentObject, cell_size, decoded))
    /\ UNCHANGED <<notExport, detached>>

WorkerSave ==
    /\ running /\ worker.pc = "cells" /\ ~CellsLeft(CurrentObject)
    /\ \E outcome \in { "ok", "fail_late" } :
          SetCurrent(ExportSave(CurrentObject, outcome))
    /\ UNCHANGED <<notExport, detached>>

\* ------------------------------------------------------------------------
\* The main loop: one action per event of the loop of lines 1020-1128
\* ------------------------------------------------------------------------
\* main is taking events: every pass of the loop draws a frame first (lines
\* 1018-1020), and the first frame sets visible_cells
InEventLoop == running /\ visible_cells # None

\* MOUSEBUTTONDOWN, button 1 (lines 1024-1040)
MouseButtonDown(pos) ==
    /\ InEventLoop
    /\ IF Fullscreen
       THEN /\ toggle_fullscreen(fullscreen_row, fullscreen_col)
            /\ UNCHANGED <<exportVars, mouseVars, retVars>>
       ELSE IF CollidePoint(export_button_rect, pos)
       THEN /\ QueueRoom
            /\ start_export("grid", "Exporting PNG...")
            /\ filename' = StartReturn(EXPORT_PNG_NAME)
            /\ UNCHANGED <<fullVars, mouseVars, html_file>>
       ELSE IF CollidePoint(html_button_rect, pos)
       THEN /\ QueueRoom
            /\ start_export("html", "Exporting HTML...")
            /\ html_file' = StartReturn(EXPORT_HTML_INDEX)
            /\ UNCHANGED <<fullVars, mouseVars, filename>>
       ELSE /\ drag_start_pos' = pos
            /\ dragging' = TRUE
            /\ last_mouse_pos' = pos
            /\ UNCHANGED <<fullVars, exportVars, retVars>>
    /\ UNCHANGED <<gridVars, viewVars, rectVars, fitVars, screen_size, running,
                   image_cache, detached>>

\* MOUSEBUTTONDOWN, buttons 4 and 5: the wheel (lines 1041-1044)
MouseWheel(direction, pos) ==
    /\ InEventLoop
    /\ DoZoom(direction, pos)
    /\ UNCHANGED <<gridVars, fullVars, exportVars, mouseVars, rectVars, retVars,
                   fitVars, screen_size, image_cache, detached>>

\* MOUSEBUTTONUP, button 1 (lines 1045-1073); pygame.mouse.get_pos() is pos
MouseButtonUp(pos) ==
    /\ InEventLoop
    /\ IF dragging
       THEN /\ IF /\ drag_start_pos # None
                  /\ Abs(pos[1] - drag_start_pos[1]) < 5
                  /\ Abs(pos[2] - drag_start_pos[2]) < 5
                  /\ ClickHitsCell(pos)
               THEN toggle_fullscreen(ClickRow(pos), ClickCol(pos))
               ELSE UNCHANGED fullVars
            /\ dragging' = FALSE
            /\ drag_start_pos' = None
            /\ UNCHANGED last_mouse_pos
       ELSE UNCHANGED <<fullVars, mouseVars>>
    /\ UNCHANGED <<gridVars, viewVars, exportVars, rectVars, retVars, fitVars,
                   screen_size, running, image_cache, detached>>

\* MOUSEMOTION (lines 1074-1079)
MouseMotion(pos) ==
    /\ InEventLoop
    /\ IF dragging
       THEN /\ scroll_offset' = scroll(last_mouse_pos[1] - pos[1],
                                       last_mouse_pos[2] - pos[2])
            /\ last_mouse_pos' = pos
       ELSE UNCHANGED <<scroll_offset, last_mouse_pos>>
    /\ UNCHANGED <<gridVars, cell_size, zoom_level, col_widths, row_heights, fullVars,
                   exportVars, dragging, drag_start_pos, rectVars, retVars, fitVars,
                   screen_size, running, image_cache, detached>>

\* KEYDOWN Escape (lines 1082-1086); outside fullscreen the program exits
\* (lines 1114-1119) and the behaviour ends
KeyEscape ==
    /\ InEventLoop /\ Fullscreen
    /\ fullscreen_image' = None
    /\ fullscreen_row' = NoneIdx
    /\ fullscreen_col' = NoneIdx
    /\ UNCHANGED <<gridVars, viewVars, exportVars, mouseVars, rectVars, retVars,
                   fitVars, screen_size, running, image_cache, detached>>

\* the scroll of lines 1095-1102 for an arrow key
ArrowDelta(direction) ==
    CASE direction = "up" -> <<0, SCROLL_SPEED>>
      [] direction = "down" -> <<0, -SCROLL_SPEED>>
      [] direction = "left" -> <<SCROLL_SPEED, 0>>
      [] direction = "right" -> <<-SCROLL_SPEED, 0>>

\* KEYDOWN of an arrow key (lines 1087-1102)
KeyArrow(direction) ==
    /\ InEventLoop
    /\ IF Fullscreen
       THEN /\ navigate_fullscreen(direction)
            /\ UNCHANGED scroll_offset
       ELSE /\ scroll_offset' = scroll(ArrowDelta(direction)[1], ArrowDelta(direction)[2])
            /\ UNCHANGED fullVars
    /\ UNCHANGED <<gridVars, cell_size, zoom_level, col_widths, row_heights,
                   exportVars, mouseVars, rectVars, retVars, fitVars, screen_size,
                   running, image_cache, detached>>

\* KEYDOWN + / = / - (lines 1103-1106); ignored in fullscreen
KeyZoom(direction) ==
    /\ InEventLoop /\ ~Fullscreen
    /\ DoZoom(direction, None)
    /\ UNCHANGED <<gridVars, fullVars, exportVars, mouseVars, rectVars, retVars,
                   fitVars, screen_size, image_cache, detached>>

\* KEYDOWN h (lines 1107-1110), taken by the model while `room` holds
KeyHWhen(room) ==
    /\ InEventLoop /\ ~Fullscreen /\ room
    /\ start_export("html", "Exporting HTML...")
    /\ html_file' = StartReturn(EXPORT_HTML_INDEX)
    /\ UNCHANGED <<gridVars, viewVars, fullVars, mouseVars, rectVars, filename,
                   fitVars, screen_size, running, image_cache, detached>>

KeyH == KeyHWhen(QueueRoom)

\* KEYDOWN e (lines 1122-1125), taken by the model while `room` holds
KeyEWhen(room) ==
    /\ InEventLoop /\ ~Fullscreen /\ room
    /\ start_export("grid", "Exporting PNG...")
    /\ filename' = StartReturn(EXPORT_PNG_NAME)
    /\ UNCHANGED <<gridVars, viewVars, fullVars, mouseVars, rectVars, html_file,
                   fitVars, screen_size, running, image_cache, detached>>

KeyE == KeyEWhen(QueueRoom)

\* KEYDOWN 0 (lines 1111-1113): reset_viewport, then enforce_scroll_bounds
Key0 ==
    /\ InEventLoop /\ ~Fullscreen
    /\ zoom_level' = ResetZoom(DEFAULT_CELL_SIZE, screen_size)
    /\ cell_size' = ResetCellSize(DEFAULT_CELL_SIZE, screen_size)
    /\ scroll_offset' =
           enforce_scroll_bounds(<<RInt(0), RInt(0)>>, screen_size, max_rows, max_cols,
                                 cell_size')
    /\ LET sizes == update_cell_sizes(DEFAULT_CELL_SIZE, zoom_level', max_rows, max_cols)
       IN  /\ col_widths' = sizes.col_widths
           /\ row_heights' = sizes.row_heights
    /\ UNCHANGED <<gridVars, fullVars, exportVars, mouseVars, rectVars, retVars,
                   fitVars, screen_size, running, image_cache, detached>>

\* KEYDOWN r (lines 1120-1121): grid = ImageGrid(base_folder, subfolders_dir).
\* A thread running on the replaced object keeps it alive and goes on. The
\* results waiting in the queue of the replaced object are lost: draw reads
\* the queue of the current object only (line 396).
KeyR ==
    /\ InEventLoop /\ ~Fullscreen
    /\ worker.pc = "idle" \/ BagCardinality(detached) < MaxDetached
    /\ LET o == NewImageGrid(fs, DEFAULT_CELL_SIZE, screen_size)
       IN  /\ grid' = o.grid
           /\ max_rows' = o.max_rows
           /\ max_cols' = o.max_cols
           /\ zoom_level' = o.zoom_level
           /\ cell_size' = o.cell_size
           /\ col_widths' = o.col_widths
           /\ row_heights' = o.row_heights
    /\ scroll_offset' = <<RInt(0), RInt(0)>>
    /\ image_cache' = {}
    /\ fullscreen_image' = None
    /\ fullscreen_row' = NoneIdx
    /\ fullscreen_col' = NoneIdx
    /\ export_in_progress' = FALSE
    /\ current_progress' = RInt(0)
    /\ current_message' = ""
    /\ export_queue' = <<>>
    /\ worker' = IdleWorker
    /\ detached' = IF worker.pc = "idle" THEN detached
                   ELSE detached
                        (+) SetToBag({ [CurrentObject EXCEPT !.export_queue = <<>>] })
    /\ UNCHANGED <<fs, DEFAULT_CELL_SIZE, mouseVars, rectVars, retVars, fitVars,
                   screen_size, running>>

\* VIDEORESIZE (lines 1126-1128)
VideoResize(size) ==
    /\ InEventLoop
    /\ screen_size' = size
    /\ scroll_offset' =
           IF Fullscreen THEN scroll_offset
           ELSE enforce_scroll_bounds(scroll_offset, size, max_rows, max_cols, cell_size)
    /\ UNCHANGED <<gridVars, cell_size, zoom_level, col_widths, row_heights, fullVars,
                   exportVars, mouseVars, rectVars, retVars, fitVars, running,
                   image_cache, detached>>

\* ------------------------------------------------------------------------
\* Specifications
\* ------------------------------------------------------------------------
Directions == { "left", "right", "up", "down" }

\* the base cell size get_max_image_resolution returns: 16x16 images
BaseCellSizes == { 16 }

InWindow(pos) == pos[1] < screen_size[1] /\ pos[2] < screen_size[2]

Init == InitProgram(FileSystems, BaseCellSizes) /\ FitIdle

\* pressing and releasing the left button at the positions `points`
ClickEvents(points) ==
    \/ \E pos \in points : InWindow(pos) /\ MouseButtonDown(pos)
    \/ \E pos \in points : InWindow(pos) /\ MouseButtonUp(pos)

\* moving the pointer to `points`, turning the wheel at `anchors`
MoveEvents(points, anchors) ==
    \/ \E pos \in points : InWindow(pos) /\ MouseMotion(pos)
    \/ \E pos \in anchors : \E d \in { -1, 1 } : InWindow(pos) /\ MouseWheel(d, pos)

ViewKeys ==
    \/ KeyEscape
    \/ \E d \in Directions : KeyArrow(d)
    \/ \E d \in { -1, 1 } : KeyZoom(d)
    \/ Key0
    \/ KeyR

ExportKeys ==
    \/ KeyH
    \/ KeyE

ExportThreads ==
    \/ WorkerBody
    \/ WorkerPut
    \/ WorkerFinally
    \/ DetachedBody
    \/ DetachedPut
    \/ DetachedFinally

\* a data cell, a far point to drag to, the two export buttons of the
\* 1024 pixel wide window
CellPoint == <<30, 60>>
FarPoint == <<100, 130>>
PngButtonPoint == <<950, 10>>
HtmlButtonPoint == <<800, 10>>

\* the start window; one that scrolls in x only, one in y only; one too
\* narrow for three cells of the base size
StartSize == <<1024, 768>>
NarrowSize == <<120, 768>>
LowSize == <<1024, 150>>
TinySize == <<40, 768>>

\* a window one base cell wide: two of the three columns scroll out of it
SlitSize == <<16, 768>>

\* the grid origin under the info bar: a wheel anchor that maps offset 0 to 0
OriginPoint == <<0, 30>>

\* pressing the left button on one of the two export buttons
ButtonPress == \E pos \in { PngButtonPoint, HtmlButtonPoint } : MouseButtonDown(pos)

\* the whole program
Next ==
    \/ Draw
    \/ ClickEvents({ CellPoint, FarPoint, PngButtonPoint, HtmlButtonPoint })
    \/ MoveEvents({ CellPoint, FarPoint }, { CellPoint, FarPoint, OriginPoint })
    \/ ViewKeys
    \/ ExportKeys
    \/ \E size \in { StartSize, NarrowSize, LowSize, TinySize } : VideoResize(size)
    \/ ExportThreads

Spec == Init /\ [][Next]_vars

\* the viewport and the fullscreen state under the view events: scrolling by
\* keys and by dragging, zooming by keys and by the wheel, reset, reload,
\* resizing, between the frames; without the export jobs
ViewPoints == { CellPoint, FarPoint }

WheelAnchors == { CellPoint }

NextView ==
    \/ Draw
    \/ ClickEvents({ CellPoint })
    \/ MoveEvents(ViewPoints, WheelAnchors)
    \/ ViewKeys
    \/ \E size \in { StartSize, NarrowSize, LowSize } : VideoResize(size)

SpecView == Init /\ [][NextView]_vars

\* the zoom level from its floor to its ceiling, in windows that make
\* reset_viewport reduce the start zoom
NextZoom ==
    \/ Draw
    \/ ClickEvents({ CellPoint })
    \/ \E d \in { -1, 1 } : MouseWheel(d, OriginPoint)
    \/ KeyEscape
    \/ \E d \in { -1, 1 } : KeyZoom(d)
    \/ Key0
    \/ KeyR
    \/ \E size \in { StartSize, NarrowSize, LowSize, TinySize } : VideoResize(size)

SpecZoom == Init /\ [][NextZoom]_vars

\* the frames: draw with its cache, between scroll, zoom, reset, reload and
\* resize events
NextFrames ==
    \/ Draw
    \/ \E d \in Directions : KeyArrow(d)
    \/ \E d \in { -1, 1 } : KeyZoom(d)
    \/ Key0
    \/ KeyR
    \/ \E size \in { StartSize, SlitSize } : VideoResize(size)

SpecFrames == Init /\ [][NextFrames]_vars

\* the export jobs: the frames (which make the buttons and take the results),
\* the export keys and buttons, reload and the export threads
NextExport ==
    \/ Draw
    \/ ButtonPress
    \/ KeyR
    \/ ExportKeys
    \/ ExportThreads

SpecExport == Init /\ [][NextExport]_vars

\* The grid construction: main started on any of the directory trees, frames,
\* and reload (which builds the grid again from the same tree)
InitBuild ==
    /\ InitProgram(BuildFileSystems, BaseCellSizes \cup { 10 })
    /\ DEFAULT_CELL_SIZE = get_max_image_resolution(fs, 16)
    /\ FitIdle

NextBuild == Draw \/ KeyR

SpecBuild == InitBuild /\ [][NextBuild]_vars

\* The visible range: the grid of 10 rows and 13 columns with base images
\* whose largest dimension is 100, frames, the left and up arrow keys (which
\* add SCROLL_SPEED to the offset, lines 1095-1100), and resizes
WideCellSizes == { 100 }

ExactSize == <<1000, 730>>

InitVisible == InitProgram({ WideFileSystem }, WideCellSizes) /\ FitIdle

NextVisible ==
    \/ Draw
    \/ \E d \in { "left", "up" } : KeyArrow(d)
    \/ \E size \in { StartSize, ExactSize } : VideoResize(size)

SpecVisible == InitVisible /\ [][NextVisible]_vars

\* Resizes around the focus: frames, zooming in, scrolling by the left arrow
\* key, clicks at FarPoint, Escape, and resizes between the starting window
\* and the narrow one
NextResize ==
    \/ Draw
    \/ ClickEvents({ FarPoint })
    \/ KeyEscape
    \/ KeyArrow("left")
    \/ KeyZoom(1)
    \/ \E size \in { StartSize, NarrowSize } : VideoResize(size)

SpecResize == Init /\ [][NextResize]_vars

\* The completion queue between the frames: PNG jobs started by the key e,
\* clicks on a data cell (which enter and leave fullscreen), Escape, reload,
\* and the export threads
NextPoll ==
    \/ Draw
    \/ ClickEvents({ CellPoint })
    \/ KeyEscape
    \/ KeyE
    \/ KeyR
    \/ ExportThreads

SpecPoll == Init /\ [][NextPoll]_vars

\* The completion queue with up to MaxWaiting results in it: the frames, the
\* keys e and h and the thread of the current object
SlotRoom == export_in_progress \/ Len(export_queue) < MaxWaiting

NextSlot ==
    \/ Draw
    \/ KeyEWhen(SlotRoom)
    \/ KeyHWhen(SlotRoom)
    \/ WorkerBody
    \/ WorkerPut
    \/ WorkerFinally

SpecSlot == Init /\ [][NextSlot]_vars

\* The export jobs cell by cell, on the grid of any of the directory trees:
\* the frames, the keys e and h, and the thread of the current object, whose
\* images decode or fail to
NextJob ==
    \/ Draw
    \/ ExportKeys
    \/ WorkerLayout
    \/ WorkerCell(BOOLEAN)
    \/ WorkerSave
    \/ WorkerPut
    \/ WorkerFinally

SpecJob == InitBuild /\ [][NextJob]_vars

\* A PNG job cell by cell while the main loop zooms in (up to the zoom level
\* JobMaxZoom) and resets the viewport; every image decodes
JobMaxZoom == Rat(6, 5)

NextJobZoom ==
    \/ Draw
    \/ KeyE
    \/ RLT(zoom_level, JobMaxZoom) /\ KeyZoom(1)
    \/ Key0
    \/ WorkerLayout
    \/ WorkerCell({ TRUE })
    \/ WorkerSave
    \/ WorkerPut
    \/ WorkerFinally

SpecJobZoom == Init /\ [][NextJobZoom]_vars

\* Column 0 and row 0 at their limit of 200 pixels: images of 200x200, zoom
\* levels from 0.9 to 1.25 (cells of 180 to 250 pixels), scrolling with the
\* arrow keys, clicks on a point of the filename column, and a narrow window
ClampCellSizes == { 200 }

ClampMinZoom == Rat(9, 10)

ClampMaxZoom == Rat(5, 4)

\* a point of the window 30 pixels from its left edge, below the header row
NamePoint == <<30, 240>>

NextClamp ==
    \/ Draw
    \/ ClickEvents({ NamePoint })
    \/ \E d \in Directions : KeyArrow(d)
    \/ RLT(zoom_level, ClampMaxZoom) /\ KeyZoom(1)
    \/ RLT(ClampMinZoom, zoom_level) /\ KeyZoom(-1)
    \/ \E size \in { StartSize, NarrowSize } : VideoResize(size)

InitClamp == InitProgram(FileSystems, ClampCellSizes) /\ FitIdle

SpecClamp == InitClamp /\ [][NextClamp]_vars

\* The events that come in while an image is focused: the wheel, the left
\* arrow key, pointer moves, resizes, the key e and the PNG button, and the
\* export thread; cells of 200 pixels that scroll in the window of 520
\* pixels; zoom levels 1.0 and 1.05
FocusMaxZoom == Rat(21, 20)

\* a point of the data cell (1, 1) while the scroll offset is 0
FocusPoint == <<250, 240>>

MidSize == <<520, 768>>

NextFocus ==
    \/ Draw
    \/ ClickEvents({ FocusPoint })
    \/ InWindow(PngButtonPoint) /\ MouseButtonDown(PngButtonPoint)
    \/ MouseMotion(FocusPoint)
    \/ (Fullscreen \/ RLT(zoom_level, FocusMaxZoom)) /\ MouseWheel(1, FocusPoint)
    \/ KeyEscape
    \/ KeyArrow("left")
    \/ KeyE
    \/ \E size \in { StartSize, MidSize } : VideoResize(size)
    \/ WorkerBody
    \/ WorkerPut
    \/ WorkerFinally

SpecFocus == InitClamp /\ [][NextFocus]_vars

\* the text fitter on every text of up to MaxTextLen characters of Alphabet,
\* in boxes lower than one line, one line high and two lines high
Alphabet == { 97, 87, SPACE }

Texts == UNION { [1..n -> Alphabet] : n \in 0..MaxTextLen }

BoxWidths == { 5, 16, 22, 28, 34 }

BoxHeights == { 5, 20, 30 }

InitText ==
    /\ InitProgram(FileSystems, BaseCellSizes)
    /\ fit_text \in Texts
    /\ fit_rect \in BoxWidths \X BoxHeights
    /\ fit_lines = <<>>
    /\ fit_pc = "call"

\* draw_wrapped_text(surface, fit_text, fit_rect, font, color)
FitText ==
    /\ fit_pc = "call"
    /\ fit_lines' = WrappedLines(fit_text, fit_rect[1], fit_rect[2])
    /\ fit_pc' = "done"
    /\ UNCHANGED <<gridVars, viewVars, fullVars, exportVars, mouseVars, rectVars,
                   retVars, fit_text, fit_rect, screen_size, running, image_cache,
                   detached>>

NextText == FitText

SpecText == InitText /\ [][NextText]_vars

\* ------------------------------------------------------------------------
\* Properties of the export jobs (SpecExport)
\* ------------------------------------------------------------------------
\* a step that calls start_export_grid: the key e, or the PNG button
GridCall ==
    \/ KeyE
    \/ /\ ~Fullscreen
       /\ CollidePoint(export_button_rect, PngButtonPoint)
       /\ MouseButtonDown(PngButtonPoint)

\* a step that calls start_export_html: the key h, or the HTML button
HtmlCall ==
    \/ KeyH
    \/ /\ ~Fullscreen
       /\ ~CollidePoint(export_button_rect, HtmlButtonPoint)
       /\ CollidePoint(html_button_rect, HtmlButtonPoint)
       /\ MouseButtonDown(HtmlButtonPoint)

\* C1: a call of start_export_grid or start_export_html made while
\* export_in_progress is true returns None, starts no thread (the thread of
\* the running job goes on from where it is, no other thread appears) and
\* leaves current_progress, current_message, export_in_progress and the
\* queue as they are.
C1_SingleFlight ==
    [][ (export_in_progress /\ (GridCall \/ HtmlCall))
        => /\ GridCall => filename' = None
           /\ HtmlCall => html_file' = None
           /\ UNCHANGED <<worker, detached, current_progress, current_message,
                          export_in_progress, export_queue>> ]_vars

\* an HTML job has posted and is still in progress, and the call that started
\* it returned the index path; html_file is None again, so a later call of
\* start_export_html was rejected
C1_Witness ==
    /\ export_in_progress
    /\ worker.kind = "html"
    /\ worker.pc = "finally"
    /\ html_file = None
    /\ current_message = "Exporting HTML..."

\* the objects with a live export thread: the current one and the replaced ones
JobObjects ==
    { CurrentObject } \cup BagToSet(detached)

\* what a job of this kind and outcome has to post
DueTuple(w) ==
    <<w.kind, IF w.outcome # "ok" THEN None
              ELSE IF w.kind = "grid" THEN EXPORT_PNG_NAME ELSE EXPORT_HTML_INDEX>>

\* C2: every accepted job posts exactly one tuple (kind, result), whether its
\* body succeeds or fails: nothing is posted before the put, and a thread in
\* its finally clause has posted once, the tuple of its kind with the path, or
\* with None when the body failed; export_in_progress is true while the thread
\* lives and false once it has ended.
C2_OnePostThenIdle ==
    \A o \in JobObjects :
        /\ o.worker.pc \in { "body", "put" } => o.worker.posts = 0
        /\ o.worker.pc = "finally"
              => /\ o.worker.posts = 1
                 /\ o.worker.posted = DueTuple(o.worker)
                 /\ (o.worker.outcome # "ok" => o.worker.posted[2] = None)
        /\ o.export_in_progress <=> o.worker.pc # "idle"

\* a PNG job whose body failed has ended: its one tuple, with None, waits in
\* the queue and export_in_progress is false
C2_Witness ==
    /\ worker = IdleWorker
    /\ ~export_in_progress
    /\ filename = EXPORT_PNG_NAME
    /\ export_queue = << <<"grid", None>> >>

\* the number of export threads alive
LiveThreads == (IF worker.pc # "idle" THEN 1 ELSE 0) + BagCardinality(detached)

\* C3: at most one export worker thread is running, in every reachable state.
C3_AtMostOneWorker == LiveThreads <= 1

\* ------------------------------------------------------------------------
\* Properties of the frames (SpecFrames)
\* ------------------------------------------------------------------------
\* the keys of the cells of rows start_row..end_row, columns
\* start_col..end_col of the grid
FrameKeys(g, vc) ==
    { g[rc[1]][rc[2]] :
        rc \in { c \in CellsOf(g) : /\ vc.start_row <= c[1] /\ c[1] <= vc.end_row
                                    /\ vc.start_col <= c[2] /\ c[2] <= vc.end_col } }

\* C4: after the eviction that ends a drawn frame, every key of the image
\* cache is the key of a cell in the range get_visible_cells returned for
\* that frame, or is the fullscreen key; and so until the next frame,
\* whatever scroll, zoom, resize, reset and reload come in between. Before
\* the first frame the cache is empty.
C4_CacheWithinFrame ==
    IF visible_cells = None THEN image_cache = {}
    ELSE image_cache \subseteq FrameKeys(grid, visible_cells) \cup { fullscreen_image }

\* a frame drawn with the first two columns scrolled out of the window: of
\* the three images only the one of column 2 is in the cache
C4_Witness ==
    /\ visible_cells # None
    /\ visible_cells.start_col = 2
    /\ image_cache = { grid[1][2] }
    /\ scroll_offset[1] = RInt(2 * cell_size)

\* ------------------------------------------------------------------------
\* Properties of the viewport and of fullscreen (SpecView, SpecZoom)
\* ------------------------------------------------------------------------
\* C5: the fullscreen state is Browsing (no image, no row, no column) or is
\* focused on a data cell: row >= 1, col >= 1, row < max_rows and col < the
\* length of that row; the focused image is the one of that cell.
C5_FocusOnDataCell ==
    IF Fullscreen
    THEN /\ fullscreen_row >= 1
         /\ fullscreen_col >= 1
         /\ fullscreen_row < max_rows
         /\ fullscreen_row \in DOMAIN grid
         /\ fullscreen_col < RowLen(grid, fullscreen_row)
         /\ fullscreen_image = grid[fullscreen_row][fullscreen_col]
    ELSE fullscreen_row = NoneIdx /\ fullscreen_col = NoneIdx

\* the focus has moved to the last row and the last column, where `right` and
\* `down` lead nowhere
C5_Witness ==
    /\ Fullscreen
    /\ fullscreen_row = max_rows - 1
    /\ fullscreen_col = RowLen(grid, fullscreen_row) - 1
    /\ fullscreen_col > ClickCol(CellPoint)

\* C8: zoom_level lies in [MIN_ZOOM, MAX_ZOOM] in every reachable state, and
\* at MAX_ZOOM a zoom-in call, with or without an anchor, leaves it there.
C8_ZoomInRange ==
    /\ RLE(MIN_ZOOM, zoom_level)
    /\ RLE(zoom_level, MAX_ZOOM)
    /\ (zoom_level = MAX_ZOOM /\ ~Fullscreen)
          => /\ zoom(1, None).zoom_level = MAX_ZOOM
             /\ zoom(1, OriginPoint).zoom_level = MAX_ZOOM

\* the ceiling is reached, in a window in which reset_viewport had reduced
\* the start zoom
C8_Witness ==
    /\ zoom_level = MAX_ZOOM
    /\ screen_size = TinySize
    /\ ~Fullscreen

\* the claim's clamp of v to [0, max(0, cellCount * cell - extent)]
ClampTo(v, cellCount, cell, extent) ==
    LET hi == IF cellCount * cell - extent > 0 THEN RInt(cellCount * cell - extent)
              ELSE RInt(0)
    IN  IF RLT(v, RInt(0)) THEN RInt(0) ELSE IF RLT(hi, v) THEN hi ELSE v

\* both axes: the window width for x, the window height less the info bar
\* for y
ClampBoth(offset, cell) ==
    << ClampTo(offset[1], max_cols, cell, screen_size[1]),
       ClampTo(offset[2], max_rows, cell, screen_size[2] - INFO_HEIGHT) >>

\* C9: after scroll(dx, dy) (an arrow key, a drag) or zoom (a zoom key, the
\* wheel) in Browsing state, the scroll offset is, on each axis, the
\* unclamped new offset clamped to [0, max(0, cellCount * cell_size -
\* viewportExtent)], and is not negative.
C9_OffsetClamped ==
    [][ ~Fullscreen =>
        /\ \A d \in Directions :
              KeyArrow(d) =>
                  scroll_offset' =
                      ClampBoth(<<RAdd(scroll_offset[1], RInt(ArrowDelta(d)[1])),
                                  RAdd(scroll_offset[2], RInt(ArrowDelta(d)[2]))>>,
                                cell_size')
        /\ \A pos \in ViewPoints :
              (dragging /\ MouseMotion(pos)) =>
                  scroll_offset' =
                      ClampBoth(<<RAdd(scroll_offset[1], RInt(last_mouse_pos[1] - pos[1])),
                                  RAdd(scroll_offset[2], RInt(last_mouse_pos[2] - pos[2]))>>,
                                cell_size')
        /\ \A d \in { -1, 1 } :
              KeyZoom(d) => scroll_offset' = ClampBoth(scroll_offset, cell_size')
        /\ \A d \in { -1, 1 } : \A pos \in WheelAnchors :
              (MouseWheel(d, pos) /\ running') =>
                  scroll_offset' = ClampBoth(AnchoredOffset(pos, cell_size'), cell_size')
        /\ RLE(RInt(0), scroll_offset'[1])
        /\ RLE(RInt(0), scroll_offset'[2]) ]_vars

\* the offset sits on an upper bound that no number of scroll steps adds up to
C9_Witness ==
    /\ ~Fullscreen
    /\ max_cols * cell_size - screen_size[1] > 0
    /\ scroll_offset[1] = RInt(max_cols * cell_size - screen_size[1])
    /\ (max_cols * cell_size - screen_size[1]) % SCROLL_SPEED # 0

\* a step that calls zoom(d, pos) in Browsing state, with a cell size above 0
\* before and after it (the grid coordinate under a pixel is a quotient by
\* the cell size)
AnchoredZoomStep(d, pos) ==
    /\ ~Fullscreen
    /\ MouseWheel(d, pos)
    /\ cell_size > 0
    /\ cell_size' > 0

\* (offset' + m) / cell_size' - (offset + m) / cell_size, times both cell sizes
CoordShift(offset_before, offset_after, m) ==
    RSub(RMul(RAdd(offset_after, RInt(m)), RInt(cell_size)),
         RMul(RAdd(offset_before, RInt(m)), RInt(cell_size')))

\* the grid coordinate under pixel m moves by less than one unit
ShiftBelowOne(offset_before, offset_after, m) ==
    LET shift == CoordShift(offset_before, offset_after, m)
    IN  Abs(shift.n) < shift.d * cell_size * cell_size'

\* C10, as stated: for every zoom(direction, anchorPixel) call in Browsing
\* state, the grid coordinate under the anchor pixel after the call (new cell
\* size, bounds-enforced offset) is the one before the call, to within less
\* than one unit, on both axes.
C10_AnchorWithinOne ==
    [][ \A d \in { -1, 1 } : \A pos \in WheelAnchors :
            AnchoredZoomStep(d, pos) =>
                /\ ShiftBelowOne(scroll_offset[1], scroll_offset'[1], pos[1])
                /\ ShiftBelowOne(scroll_offset[2], scroll_offset'[2],
                                 pos[2] - INFO_HEIGHT) ]_vars

\* C10, amended: on each axis on which the anchored offset lies within the
\* scroll bounds of the new cell size (enforce_scroll_bounds leaves it as it
\* is), the grid coordinate under the anchor pixel after the call is the one
\* before the call.
C10_AnchorKeptInBounds ==
    [][ \A d \in { -1, 1 } : \A pos \in WheelAnchors :
            AnchoredZoomStep(d, pos) =>
                LET anchored == AnchoredOffset(pos, cell_size')
                    bounded == ClampBoth(anchored, cell_size')
                IN  /\ bounded[1] = anchored[1]
                       => CoordShift(scroll_offset[1], scroll_offset'[1], pos[1]).n = 0
                    /\ bounded[2] = anchored[2]
                       => CoordShift(scroll_offset[2], scroll_offset'[2],
                                     pos[2] - INFO_HEIGHT).n = 0 ]_vars

\* an offset that is neither 0 nor an upper bound of a window of the model
\* (those are whole multiples of 3): an anchored zoom inside the bounds set it
C10_Witness ==
    /\ ~Fullscreen
    /\ cell_size > 0
    /\ \/ scroll_offset[1].d > 1
       \/ scroll_offset[1].n % 3 # 0
       \/ scroll_offset[2].d > 1
       \/ scroll_offset[2].n % 3 # 0

\* ------------------------------------------------------------------------
\* Properties of the text fitter (SpecText)
\* ------------------------------------------------------------------------
\* C6: no line the text fitter produces is wider than the box, the last line
\* with its ellipsis included. The box width is taken here as the whole
\* width of the rectangle, 10 more than the width the lines are fitted to.
C6_NoLineWiderThanBox ==
    fit_pc = "done" =>
        \A i \in DOMAIN fit_lines : TextWidth(fit_lines[i]) <= fit_rect[1]

\* C7, as stated: at most floor(boxHeight / lineHeight) lines, also in a box
\* lower than one line.
C7_AtMostFloorLines ==
    fit_pc = "done" => Len(fit_lines) <= fit_rect[2] \div LINE_HEIGHT

\* C7, amended: at most max(1, floor((boxHeight - 10) / lineHeight)) lines.
C7_AtMostPaddedLines ==
    fit_pc = "done" =>
        LET padded == (fit_rect[2] - 10) \div LINE_HEIGHT
        IN  Len(fit_lines) <= IF padded > 1 THEN padded ELSE 1

\* a box lower than one line got its one line, cut short with an ellipsis
C7_Witness ==
    /\ fit_pc = "done"
    /\ fit_rect[2] < LINE_HEIGHT
    /\ Len(fit_lines) = 1
    /\ EndsWith(fit_lines[1], ELLIPSIS)

\* ------------------------------------------------------------------------
\* Properties of the grid construction (SpecBuild)
\* ------------------------------------------------------------------------
\* the files of the base folder with a supported image extension
BaseImages(filesystem) == { f \in filesystem.base : IsSupported(f) }

\* the variant folders that exist: the folder of a base image b is
\* subfolders_dir/stem(b)
VariantFolders(filesystem) ==
    { SplitExtStem(b) : b \in BaseImages(filesystem) } \cap DOMAIN filesystem.variants

\* the image filenames found in the existing variant folders
VariantFilenames(filesystem) ==
    UNION { { f \in filesystem.variants[d] : IsSupported(f) } :
            d \in VariantFolders(filesystem) }

\* C11: for a base folder with at least one supported image, the grid has
\* 2 + (number of distinct image filenames in the existing variant folders)
\* rows, max_rows is that number, and every row (header, base images, each
\* variant row) has 1 + (number of base images) cells.
C11_GridShape ==
    BaseImages(fs) # {}
        => /\ GridRows(grid) = 2 + Cardinality(VariantFilenames(fs))
           /\ max_rows = GridRows(grid)
           /\ \A r \in DOMAIN grid : RowLen(grid, r) = 1 + Cardinality(BaseImages(fs))
           /\ max_cols = 1 + Cardinality(BaseImages(fs))

\* a.png and b.PNG, both folders exist and hold x.png, Y.png and n.txt between
\* them: 4 rows of 3 cells, built at startup and again by reload
C11_Witness ==
    /\ Cardinality(BaseImages(fs)) = 2
    /\ Cardinality(VariantFilenames(fs)) = 2
    /\ \E d \in DOMAIN fs.variants : \E f \in fs.variants[d] : ~IsSupported(f)
    /\ max_rows = 4 /\ max_cols = 3
    /\ visible_cells # None /\ image_cache = {}

\* C12: the labels of rows 2 and above are in case-insensitive order (no
\* later label, lower-cased, is less than an earlier one, lower-cased), and a
\* reload over the same directory tree builds the same grid.
C12_RowsCaseInsensitive ==
    [][ /\ \A r, q \in DOMAIN grid :
              (2 <= r /\ r < q) => ~StrLess(Lower(grid[q][0]), Lower(grid[r][0]))
        /\ KeyR => grid' = grid ]_vars

\* C13: with no supported image in the base folder startup is aborted: no
\* frame is ever drawn on an empty grid.
C13_NoFrameOnEmptyGrid == [][ Draw => grid # <<>> ]_vars

\* C14: in every variant row r >= 2 and column c >= 1 the cell is the path
\* subfolders_dir/header(c)/label(r) when that folder exists and holds that
\* file, and a placeholder otherwise; and the columns are the base images in
\* sorted order, each with its stem as header, whether its folder exists or
\* not.
C14_CellIsFileOrPlaceholder ==
    BaseImages(fs) # {}
        => /\ { grid[1][c] : c \in DOMAIN grid[1] \ {0} }
                  = { PathJoin(BASE_FOLDER, b) : b \in BaseImages(fs) }
           /\ \A c \in DOMAIN grid[1] \ {0} :
                  /\ PathJoin(BASE_FOLDER, grid[0][c]) = SplitExtStem(grid[1][c])
                  /\ c > 1 => StrLess(grid[1][c - 1], grid[1][c])
           /\ \A r \in DOMAIN grid : \A c \in DOMAIN grid[r] :
                  (r >= 2 /\ c >= 1)
                      => grid[r][c] =
                             IF /\ grid[0][c] \in DOMAIN fs.variants
                                /\ grid[r][0] \in fs.variants[grid[0][c]]
                             THEN PathJoin(PathJoin(SUBFOLDERS_DIR, grid[0][c]), grid[r][0])
                             ELSE PLACEHOLDER

\* a.png with its folder and b.PNG without: the row of x.png holds the path
\* v/a/x.png in column 1 and a placeholder in column 2
C14_Witness ==
    /\ Cardinality(BaseImages(fs)) = 2
    /\ DOMAIN fs.variants = { <<97>> }
    /\ \E r \in DOMAIN grid :
          /\ r >= 2
          /\ grid[r][1] = PathJoin(PathJoin(SUBFOLDERS_DIR, <<97>>), grid[r][0])
          /\ IsPlaceholder(grid[r][2])
    /\ visible_cells # None

\* the directory tree of the scenario: three base images, and two variant
\* folders
ThreeImagesTwoFolders ==
    /\ Cardinality(BaseImages(fs)) = 3
    /\ Cardinality(VariantFolders(fs)) = 2

\* C15 as stated: three base images and two variant folders give a grid of
\* 3 columns and 2 + (number of distinct derived filenames) rows.
C15_ThreeColumns ==
    ThreeImagesTwoFolders
        => /\ max_cols = 3
           /\ max_rows = 2 + Cardinality(VariantFilenames(fs))

\* C15: three base images and two variant folders give a grid of 4 columns
\* (the label column and one column for each base image, the one without a
\* folder included) and 2 + (number of distinct derived filenames) rows.
C15_FourColumns ==
    ThreeImagesTwoFolders
        => /\ max_cols = 4
           /\ \A r \in DOMAIN grid : RowLen(grid, r) = 4
           /\ max_rows = 2 + Cardinality(VariantFilenames(fs))

\* the scenario with x.png in one folder and Y.png in the other: 4 rows, and
\* the column of c.png holds placeholders
C15_Witness ==
    /\ ThreeImagesTwoFolders
    /\ \A d \in DOMAIN fs.variants : Cardinality(fs.variants[d]) = 1
    /\ max_rows = 4
    /\ IsPlaceholder(grid[2][3]) /\ IsPlaceholder(grid[3][3])
    /\ visible_cells # None

\* ------------------------------------------------------------------------
\* Properties of the visible range (SpecVisible)
\* ------------------------------------------------------------------------
\* the index of the cell that holds the point at distance x from the origin,
\* cells being `cell` wide: k * cell <= x < (k + 1) * cell
CellAt(x, cell) ==
    CHOOSE k \in 0..(RTrunc(x) + 1) :
        RLE(RInt(k * cell), x) /\ RLT(x, RInt((k + 1) * cell))

\* the index of the last cell of which a part lies before the window edge at
\* distance x: k * cell < x <= (k + 1) * cell
LastVisible(x, cell) ==
    CHOOSE k \in 0..(RTrunc(x) + 1) :
        RLT(RInt(k * cell), x) /\ RLE(x, RInt((k + 1) * cell))

\* the window edge falls on a cell boundary
OnBoundary(x, cell) == RInt(RTrunc(RDivInt(x, cell)) * cell) = x

\* the far edges of the window in grid coordinates
FarX == RAdd(scroll_offset[1], RInt(screen_size[1]))

FarY == RAdd(scroll_offset[2], RInt(screen_size[2] - INFO_HEIGHT))

\* the frame of this step computes a visible range
RangeStep == Draw /\ ~Fullscreen /\ cell_size > 0 /\ max_cols > 0

\* C16 as stated: in a frame, the start indices are floor(offset / cell_size)
\* and, on an axis where the grid does not cap it, the end index is the index
\* of the last visible row (column) plus the buffer of 2.
C16_EndIsLastVisiblePlusBuffer ==
    [][ RangeStep
        => /\ visible_cells'.start_row = CellAt(scroll_offset[2], cell_size)
           /\ visible_cells'.start_col = CellAt(scroll_offset[1], cell_size)
           /\ visible_cells'.end_row < max_rows
                => visible_cells'.end_row = LastVisible(FarY, cell_size) + BUFFER_ROWS
           /\ visible_cells'.end_col < max_cols
                => visible_cells'.end_col = LastVisible(FarX, cell_size) + BUFFER_COLS
      ]_vars

\* C16: in a frame, the start indices are floor(offset / cell_size) and, on
\* an axis where the grid does not cap it, the end index is
\* floor((offset + extent) / cell_size) + 2: the index of the last visible row
\* (column) plus 2, or plus 3 when the far edge of the window falls on a cell
\* boundary.
C16_EndIsFloorPlusBuffer ==
    [][ RangeStep
        => /\ visible_cells'.start_row = CellAt(scroll_offset[2], cell_size)
           /\ visible_cells'.start_col = CellAt(scroll_offset[1], cell_size)
           /\ visible_cells'.end_row < max_rows
                => /\ visible_cells'.end_row = CellAt(FarY, cell_size) + BUFFER_ROWS
                   /\ visible_cells'.end_row =
                          LastVisible(FarY, cell_size) + BUFFER_ROWS
                          + (IF OnBoundary(FarY, cell_size) THEN 1 ELSE 0)
           /\ visible_cells'.end_col < max_cols
                => /\ visible_cells'.end_col = CellAt(FarX, cell_size) + BUFFER_COLS
                   /\ visible_cells'.end_col =
                          LastVisible(FarX, cell_size) + BUFFER_COLS
                          + (IF OnBoundary(FarX, cell_size) THEN 1 ELSE 0)
      ]_vars

\* a frame of the 1000x730 window at cell size 100, scrolled right by 30: the
\* bottom edge is on a cell boundary (end_row 9 for the last visible row 6),
\* the right edge is not (end_col 12 for the last visible column 10)
C16_Witness ==
    /\ screen_size = ExactSize /\ cell_size = 100
    /\ scroll_offset = <<RInt(30), RInt(0)>>
    /\ visible_cells = [start_row |-> 0, end_row |-> 9, start_col |-> 0, end_col |-> 12]
    /\ max_rows = 10 /\ max_cols = 13

\* ------------------------------------------------------------------------
\* Properties of reset_viewport (SpecFrames)
\* ------------------------------------------------------------------------
\* a step that runs reset_viewport: the key 0, or the constructor on reload
ResetStep == Key0 \/ KeyR

\* `count` cells of the size `cell` fit in the window width and in the window
\* height below the info bar
CellsFit(count, cell, size) ==
    count * cell <= size[1] /\ count * cell <= size[2] - INFO_HEIGHT

\* C17: after reset_viewport the zoom level is 1.0 if 3 columns and 3 rows
\* of cells fit at zoom 1.0, is otherwise lower but not below MIN_START_ZOOM,
\* and 3 columns and 3 rows of the resulting cell size fit in the window.
C17_ResetFitsThree ==
    [][ ResetStep
        => /\ CellsFit(3, DEFAULT_CELL_SIZE, screen_size) => zoom_level' = RInt(1)
           /\ ~CellsFit(3, DEFAULT_CELL_SIZE, screen_size)
                => RLE(MIN_START_ZOOM, zoom_level') /\ RLT(zoom_level', RInt(1))
           /\ CellsFit(3, cell_size', screen_size) ]_vars

\* ------------------------------------------------------------------------
\* Properties of the export progress (SpecExport)
\* ------------------------------------------------------------------------
\* C18: the progress value of every object with an export job, the current
\* one and the replaced ones, lies in [0, 1] in every reachable state.
C18_ProgressInUnitInterval ==
    \A o \in JobObjects :
        RLE(RInt(0), o.current_progress) /\ RLE(o.current_progress, RInt(1))

\* ------------------------------------------------------------------------
\* Properties of the focus (SpecView) and of resizes (SpecResize)
\* ------------------------------------------------------------------------
\* Browsing: no image, row or column is focused
Browsing ==
    fullscreen_image = None /\ fullscreen_row = NoneIdx /\ fullscreen_col = NoneIdx

\* the release at pos ends a click (a press not followed by a drag of 5
\* pixels or more) on the cell under pos, a data cell
SelectStep(pos) ==
    /\ MouseButtonUp(pos)
    /\ dragging /\ drag_start_pos # None
    /\ Abs(pos[1] - drag_start_pos[1]) < 5 /\ Abs(pos[2] - drag_start_pos[2]) < 5
    /\ ClickRow(pos) >= 1 /\ ClickCol(pos) >= 1

\* C19: a click on a data cell (row, col) while Browsing focuses that cell
\* (its image, its row and its column); a press of the mouse button while
\* focused returns to Browsing; Escape while focused returns to Browsing; and
\* in each return the image, the row and the column are cleared together.
C19_FocusMachine ==
    [][ /\ \A pos \in ViewPoints :
              (SelectStep(pos) /\ Browsing)
                  => /\ Fullscreen'
                     /\ fullscreen_row' = ClickRow(pos)
                     /\ fullscreen_col' = ClickCol(pos)
                     /\ fullscreen_image' = grid[ClickRow(pos)][ClickCol(pos)]
        /\ \A pos \in ViewPoints : (MouseButtonDown(pos) /\ Fullscreen) => Browsing'
        /\ (KeyEscape /\ Fullscreen) => Browsing'
        /\ Browsing' \/ (Fullscreen' /\ fullscreen_row' >= 1 /\ fullscreen_col' >= 1)
      ]_vars

\* the cell under the click point is focused, by a click that has been
\* released, in a viewport that has been zoomed since the start
C19_Witness ==
    /\ Fullscreen
    /\ fullscreen_row = ClickRow(CellPoint) /\ fullscreen_col = ClickCol(CellPoint)
    /\ fullscreen_image = grid[fullscreen_row][fullscreen_col]
    /\ ~dragging /\ drag_start_pos = None /\ last_mouse_pos = CellPoint
    /\ zoom_level # RInt(1)

\* C20: whenever no image is focused, the scroll offset on each axis is at
\* most max(0, cellCount * cell_size - viewportExtent) for the current window
\* size, resizes received in fullscreen included.
C20_OffsetWithinWindowBounds ==
    ~Fullscreen
        => /\ RLE(scroll_offset[1], RInt(Max2(0, max_cols * cell_size - screen_size[1])))
           /\ RLE(scroll_offset[2],
                  RInt(Max2(0, max_rows * cell_size - (screen_size[2] - INFO_HEIGHT))))

\* ------------------------------------------------------------------------
\* Properties of the completion queue (SpecPoll, SpecSlot, SpecExport)
\* ------------------------------------------------------------------------
\* q is the front part of r
IsPrefix(q, r) == Len(q) <= Len(r) /\ SubSeq(r, 1, Len(q)) = q

\* C21: the queue is polled once in every frame and a result leaves it only
\* when a frame takes it, so every posted result is taken by the main loop
\* whatever the user does meanwhile: a frame with a result waiting takes the
\* first one, and every other step keeps the waiting results in the queue.
C21_EveryResultTakenByAFrame ==
    [][ export_queue # <<>>
        => IF Draw THEN export_queue' = Tail(export_queue)
           ELSE IsPrefix(export_queue, export_queue') ]_vars

\* C22: under every interleaving of the main loop and the export threads the
\* completion queue of the ImageGrid holds at most one result that has not
\* been taken.
C22_AtMostOneWaiting == Len(export_queue) <= 1

\* C23: a step of an export thread leaves the grid, the image cache and the
\* viewport of its object alone and writes only current_progress,
\* export_in_progress and the queue; the cache changes only in steps of the
\* main thread (a frame, a reload); the grid of an object never changes (a
\* reload makes a new object).
C23_ThreadWritesExportStateOnly ==
    [][ /\ ExportThreads
           => /\ UNCHANGED <<gridVars, image_cache, viewVars, fullVars, current_message>>
              /\ { o.grid : o \in BagToSet(detached') }
                    \subseteq { o.grid : o \in BagToSet(detached) }
        /\ image_cache' # image_cache => Draw \/ KeyR
        /\ ~KeyR => grid' = grid ]_vars

\* an export thread has run its body and posted while the cache holds the
\* images of the last frame
C23_Witness ==
    /\ worker.pc = "finally"
    /\ worker.posts = 1
    /\ image_cache # {}
    /\ grid # <<>>

\* ------------------------------------------------------------------------
\* Properties of the navigation in fullscreen (SpecView)
\* ------------------------------------------------------------------------
\* the cell an arrow key leads to from the focused cell: one step in the
\* direction, not below row 1 or column 1, not past the end of the row or of
\* the grid
Neighbour(d) ==
    LET row == fullscreen_row
        col == fullscreen_col
    IN  CASE d = "left" -> <<row, IF col - 1 >= 1 THEN col - 1 ELSE 1>>
          [] d = "right" -> <<row, IF col + 1 < RowLen(grid, row) THEN col + 1 ELSE col>>
          [] d = "up" -> <<IF row - 1 >= 1 THEN row - 1 ELSE 1, col>>
          [] d = "down" -> <<IF row + 1 < GridRows(grid) THEN row + 1 ELSE row, col>>

\* the neighbour when it is a cell of the grid, else the focused cell
NavigateResult(d) ==
    LET t == Neighbour(d)
    IN  IF t[1] \in DOMAIN grid /\ t[2] \in DOMAIN grid[t[1]] THEN t
        ELSE <<fullscreen_row, fullscreen_col>>

\* C24: an arrow key pressed while a cell is focused moves the focus to the
\* neighbour in that direction (left: max(1, col-1); right: col+1 when that
\* is within the row; up: max(1, row-1); down: row+1 when that is below the
\* row count), leaves it where it is when there is no such cell, and never
\* ends the focus; while nothing is focused an arrow key leaves the
\* fullscreen state alone.
C24_NavigateMovesFocus ==
    [][ \A d \in Directions :
          KeyArrow(d)
          => IF Fullscreen
             THEN /\ <<fullscreen_row', fullscreen_col'>> = NavigateResult(d)
                  /\ fullscreen_image' = grid[NavigateResult(d)[1]][NavigateResult(d)[2]]
                  /\ fullscreen_image' # None
             ELSE UNCHANGED fullVars ]_vars

\* the focus is on the placeholder cell of row 2, column 2, which the clicks
\* of this specification reach at the start zoom by the arrow keys only
C24_Witness ==
    /\ fullscreen_row = 2
    /\ fullscreen_col = 2
    /\ IsPlaceholder(fullscreen_image)
    /\ zoom_level = RInt(1)

\* ------------------------------------------------------------------------
\* Properties of the export jobs cell by cell (SpecJob, SpecJobZoom)
\* ------------------------------------------------------------------------
\* a pass of the inner loop of a job of this kind
CellStep(kind) == worker.kind = kind /\ WorkerCell(BOOLEAN)

\* the number of cells of the grid of the current object
CellCount == Cardinality(CellsOf(grid))

\* C25: a PNG job takes the cells row by row, left to right; after the k-th
\* cell current_progress is k / (rowCount * colCount); the progress never
\* goes down during the job and is exactly 1 after the last cell.
C25_PngProgressPerCell ==
    [][ CellStep("grid")
        => LET k == worker'.locals.visited
           IN  /\ k = worker.locals.visited + 1
               /\ NextCell(CurrentObject) = <<(k - 1) \div max_cols, (k - 1) % max_cols>>
               /\ current_progress' = Rat(k, max_rows * max_cols)
               /\ RLE(current_progress, current_progress')
               /\ (k = CellCount => current_progress' = RInt(1)) ]_vars

\* a PNG job has taken its last cell and has not saved the image yet
C25_Witness ==
    /\ worker.kind = "grid"
    /\ worker.pc = "cells"
    /\ worker.locals.visited = CellCount
    /\ max_rows = 4
    /\ max_cols = 4
    /\ current_progress = RInt(1)

\* C26: the progress of an HTML job is processed / total with every cell and
\* every re-encoded image counted in the total, so it is exactly 1 when the
\* job has finished with every image encoded, for every grid.
C26_HtmlProgressEndsAtOne ==
    (/\ worker.kind = "html"
     /\ worker.pc \in { "put", "finally" }
     /\ worker.outcome = "ok"
     /\ ~worker.locals.image_errors)
    => current_progress = RInt(1)

\* C27: an image that fails to decode does not end the job: the pass of the
\* loop ends like any other, the job goes on to the next cell, the save
\* comes after the last cell only, and a job that saved its output posts the
\* path, not None, also when an image failed.
C27_DecodeFailureDoesNotAbort ==
    [][ /\ \A kind \in { "grid", "html" } :
              CellStep(kind)
              => /\ worker'.pc = "cells"
                 /\ worker'.outcome = "none"
                 /\ worker'.locals.visited = worker.locals.visited + 1
        /\ WorkerSave => worker.locals.visited = CellCount
        /\ (WorkerPut /\ worker.locals.image_errors /\ worker.outcome = "ok")
              => /\ worker.locals.visited = CellCount
                 /\ export_queue'[Len(export_queue')]
                      = <<worker.kind,
                          IF worker.kind = "grid" THEN EXPORT_PNG_NAME
                          ELSE EXPORT_HTML_INDEX>> ]_vars

\* an HTML job in which an image failed to decode has posted the index path
C27_Witness ==
    /\ worker.kind = "html"
    /\ worker.pc = "finally"
    /\ worker.locals.image_errors
    /\ worker.locals.visited = CellCount
    /\ worker.posted = <<"html", EXPORT_HTML_INDEX>>

\* C28: in the layout of a PNG job the width of column 0 is between 128 and
\* 256 pixels and the height of row 0 between 128 and 200 pixels.
C28_HeaderSizesInRange ==
    (worker.kind = "grid" /\ worker.pc = "cells")
    => /\ worker.locals.column_0_width \in 128..256
       /\ worker.locals.row_0_height \in 128..200

\* C29: every cell of a PNG job is drawn with the cell size the canvas was
\* sized with, and its rectangle lies inside the canvas, whatever zoom and
\* reset steps the main loop takes while the job runs.
C29_CellsMatchCanvas ==
    [][ (worker.kind = "grid" /\ WorkerCell({ TRUE }))
        => LET l == worker.locals
               box == CellBox(CurrentObject, cell_size, NextCell(CurrentObject))
           IN  /\ l.total_width = l.column_0_width + (max_cols - 1) * cell_size
               /\ l.total_height = l.row_0_height + (max_rows - 1) * cell_size
               /\ box[3] <= l.total_width
               /\ box[4] <= l.total_height ]_vars

\* ------------------------------------------------------------------------
\* Properties of the cell size (SpecZoom)
\* ------------------------------------------------------------------------
\* DEFAULT_CELL_SIZE * zoom_level
ScaledBase == RMul(RInt(DEFAULT_CELL_SIZE), zoom_level)

\* C30 as stated: while the program runs cell_size is the base cell size
\* times the zoom level, rounded to the nearest integer.
C30_CellSizeIsRounded == running => cell_size = RRound(ScaledBase)

\* C30: while the program runs cell_size is the base cell size times the zoom
\* level with the fraction cut off, for every zoom level that zoom and
\* reset_viewport reach.
C30_CellSizeIsTruncated == running => cell_size = ScaledBase.n \div ScaledBase.d

\* the zoom level is 1.35 after steps of zoom: 16 * 1.35 = 21.6 and the cell
\* size is 21
C30_Witness ==
    /\ running
    /\ zoom_level = Rat(27, 20)
    /\ DEFAULT_CELL_SIZE = 16
    /\ cell_size = 21

\* ------------------------------------------------------------------------
\* The image cache under load_image (SpecFrames)
\* ------------------------------------------------------------------------
\* the cells whose paths the frame drawn in this state passes to load_image
FrameCells ==
    DrawnCells(grid, get_visible_cells(scroll_offset, screen_size, max_rows, max_cols,
                                       cell_size))

\* a frame that is drawn to its end: not the fullscreen frame, and not one
\* that dies of an exception
GridFrame == Draw /\ ~Fullscreen /\ cell_size # 0 /\ max_cols # 0

\* C31: in every drawn frame, load_image does not call the decoder for a
\* placeholder cell and the cache has no entry for it afterwards; for an
\* image path it calls the decoder exactly when the path is not in the cache,
\* and whether the decoder succeeds or fails the path is a key of the cache
\* after the call and at the end of the frame. A path is therefore decoded
\* again only after a step that took it out of the cache.
C31_DecodeOnlyOnMiss ==
    [][ GridFrame =>
          \A rc \in FrameCells : \A decodes \in BOOLEAN :
              LET path == grid[rc[1]][rc[2]]
                  r == load_image(image_cache, path, decodes)
              IN  IF IsPlaceholder(path)
                  THEN /\ r.decoder = 0
                       /\ r.cache = image_cache
                       /\ path \notin image_cache'
                  ELSE /\ r.decoder = (IF path \in image_cache THEN 0 ELSE 1)
                       /\ path \in r.cache
                       /\ path \in image_cache' ]_vars

\* a frame has been drawn over a placeholder cell and over an image cell
\* whose path is in the cache, while another image of the grid is not cached
C31_Witness ==
    /\ visible_cells # None /\ ~Fullscreen /\ running
    /\ \E rc \in DrawnCells(grid, visible_cells) : IsPlaceholder(grid[rc[1]][rc[2]])
    /\ \E rc \in DrawnCells(grid, visible_cells) : grid[rc[1]][rc[2]] \in image_cache
    /\ \E rc \in ImageCells(grid) : grid[rc[1]][rc[2]] \notin image_cache
    /\ \A path \in image_cache : ~IsPlaceholder(path)

\* ------------------------------------------------------------------------
\* The cell size at the smallest zoom levels (SpecZoom)
\* ------------------------------------------------------------------------
\* C32: in every reachable state cell_size is at least 1, so that the
\* divisions by cell_size in get_visible_cells (lines 161-166) and in zoom
\* (lines 476-477) never divide by zero.
C32_CellSizePositive == cell_size >= 1

\* ------------------------------------------------------------------------
\* The layout draw uses against the cell range it iterates (SpecClamp)
\* ------------------------------------------------------------------------
\* x of draw, line 304: col_positions[col] - scroll_offset[0]
CellX(col) == RSub(RInt(SumTo(col_widths, col - 1)), scroll_offset[1])

\* y of draw, line 305: row_positions[row] - scroll_offset[1]
CellY(row) == RSub(RInt(INFO_HEIGHT + SumTo(row_heights, row - 1)), scroll_offset[2])

\* the rectangle of the cell (line 312) shares a pixel with the grid area of
\* the window (line 291)
IntersectsViewport(row, col) ==
    /\ RLT(RInt(0), RAdd(CellX(col), RInt(col_widths[col])))
    /\ RLT(CellX(col), RInt(screen_size[1]))
    /\ RLT(RInt(INFO_HEIGHT), RAdd(CellY(row), RInt(row_heights[row])))
    /\ RLT(CellY(row), RInt(screen_size[2]))

\* the scroll offset is within the bounds enforce_scroll_bounds keeps
OffsetInBounds ==
    scroll_offset = enforce_scroll_bounds(scroll_offset, screen_size, max_rows, max_cols,
                                          cell_size)

\* the cells of rows and columns 1 and up
DataCells == { rc \in CellsOf(grid) : rc[1] >= 1 /\ rc[2] >= 1 }

\* C33: while the grid is shown with a scroll offset within its bounds, every
\* data cell whose rectangle, placed with col_widths and row_heights (column
\* 0 and row 0 at most 200), intersects the grid area of the window is one
\* of the cells the frame iterates.
C33_CullingComplete ==
    (running /\ ~Fullscreen /\ cell_size >= 1 /\ OffsetInBounds)
        => \A rc \in DataCells : IntersectsViewport(rc[1], rc[2]) => rc \in FrameCells

\* a frame drawn with cells of more than 200 pixels, column 0 at 200: one
\* data cell is left out of the range and another one, in the range, is in
\* the window
C33_Witness ==
    /\ running /\ ~Fullscreen /\ OffsetInBounds
    /\ cell_size > MAX_FILENAME_WIDTH /\ col_widths[0] = MAX_FILENAME_WIDTH
    /\ visible_cells = get_visible_cells(scroll_offset, screen_size, max_rows, max_cols,
                                         cell_size)
    /\ \E rc \in DataCells : rc \notin FrameCells
    /\ \E rc \in FrameCells : IntersectsViewport(rc[1], rc[2])

\* the extent of the content draw lays out: the sum of all column widths,
\* and of all row heights (lines 292-297)
DrawnWidth == SumTo(col_widths, max_cols - 1)

DrawnHeight == SumTo(row_heights, max_rows - 1)

\* C37: in Browsing state the scroll offset on each axis is at most
\* max(0, drawn content extent - viewport extent), the drawn content extent
\* being the sum of the column widths (or row heights) draw uses, with
\* column 0 and row 0 as update_cell_sizes clamps them.
C37_OffsetWithinDrawnContent ==
    Browsing
        => /\ RLE(scroll_offset[1], RInt(Max2(0, DrawnWidth - screen_size[1])))
           /\ RLE(scroll_offset[2],
                  RInt(Max2(0, DrawnHeight - (screen_size[2] - INFO_HEIGHT))))

\* ------------------------------------------------------------------------
\* The click hit test against what draw puts under the pointer (SpecClamp)
\* ------------------------------------------------------------------------
\* pos lies in the rectangle draw gives the cell (row, col) (lines 304-312)
InsideCell(pos, row, col) ==
    /\ RLE(CellX(col), RInt(pos[1]))
    /\ RLT(RInt(pos[1]), RAdd(CellX(col), RInt(col_widths[col])))
    /\ RLE(CellY(row), RInt(pos[2]))
    /\ RLT(RInt(pos[2]), RAdd(CellY(row), RInt(row_heights[row])))

\* pos lies on the bar draw puts over the top of the window (lines 359-361)
OverInfoBar(pos) == pos[2] < INFO_HEIGHT

\* pos lies on the header row, which draw keeps at y = INFO_HEIGHT whatever
\* the scroll offset is (lines 326-331)
OverHeaderRow(pos) == INFO_HEIGHT <= pos[2] /\ pos[2] < INFO_HEIGHT + row_heights[0]

\* pos lies on the filename column, which draw keeps at x = 0 whatever the
\* scroll offset is (lines 345-358)
OverFilenameColumn(pos) == INFO_HEIGHT <= pos[2] /\ pos[1] < col_widths[0]

\* C34: a release of the mouse button that enters fullscreen on the cell
\* (row, col) has the pointer inside the rectangle draw gives that cell, and
\* not over the info bar, the header row or the filename column.
C34_ClickOnlyOnUncoveredCell ==
    [][ \A pos \in { NamePoint } :
            (MouseButtonUp(pos) /\ Browsing /\ ~Browsing')
                => /\ InsideCell(pos, fullscreen_row', fullscreen_col')
                   /\ ~OverInfoBar(pos)
                   /\ ~OverHeaderRow(pos)
                   /\ ~OverFilenameColumn(pos) ]_vars

\* ------------------------------------------------------------------------
\* The viewport and the export jobs while an image is focused (SpecFocus)
\* ------------------------------------------------------------------------
\* C35: while an image is focused, no step changes zoom_level, cell_size or
\* scroll_offset (the wheel, the keys, pointer moves and resizes included),
\* and no step starts an export job.
C35_FocusFreezesViewport ==
    [][ Fullscreen
          => /\ UNCHANGED <<zoom_level, cell_size, scroll_offset>>
             /\ export_in_progress' => export_in_progress
             /\ worker.pc = "idle" => worker'.pc = "idle" ]_vars

\* an image is focused and the window has been resized while it was: the
\* scroll offset is the one of the narrower window, no job is running and
\* the buttons are no longer drawn
C35_Witness ==
    /\ Fullscreen /\ running
    /\ screen_size = StartSize
    /\ scroll_offset[1] # RInt(0)
    /\ max_cols * cell_size < screen_size[1]
    /\ zoom_level = FocusMaxZoom
    /\ ~export_in_progress /\ worker.pc = "idle"
    /\ export_button_rect = None

\* ------------------------------------------------------------------------
\* The order of the put and of the finally clause (SpecExport)
\* ------------------------------------------------------------------------
\* C36: the thread of an object posts its result before it clears the
\* export_in_progress of that object. The put appends the tuple to the queue
\* while export_in_progress is still true; export_in_progress of an object
\* goes from true to false in the finally step of its thread only, and that
\* thread has posted its one tuple by then; between the put and the finally
\* step the queue of the object changes only when a frame takes its first
\* result. So whenever export_in_progress is false after a job, the result of
\* the job is in the queue or a frame has taken it.
C36_PostBeforeClear ==
    [][ /\ WorkerPut
            => /\ export_in_progress /\ export_in_progress'
               /\ export_queue' = Append(export_queue, DueTuple(worker))
        /\ (export_in_progress /\ ~export_in_progress' /\ ~KeyR)
            => /\ WorkerFinally
               /\ worker.posts = 1 /\ worker.posted = DueTuple(worker)
        /\ (worker.pc = "finally" /\ worker'.pc = "finally"
                /\ export_queue' # export_queue)
            => Draw /\ export_queue' = Tail(export_queue)
        /\ \A o \in BagToSet(detached) :
               /\ o.export_in_progress
               /\ o.worker.pc = "finally"
                     => o.worker.posts = 1 /\ o.worker.posted = DueTuple(o.worker)
      ]_vars

\* a thread has posted its result and a frame has taken it from the queue
\* before the thread has cleared export_in_progress
C36_Witness ==
    /\ worker.pc = "finally" /\ worker.posts = 1
    /\ export_in_progress
    /\ export_queue = <<>>
    /\ detached = EmptyBag

====
